---- MODULE Spec2Model ----
(***************************************************************************)
(* Ticket lifecycle of the tebexsync bot (ticket handler).                  *)
(*                                                                         *)
(* The bot runs on one event loop.  A handler runs without interruption    *)
(* from one `await` to the next, so every action below is one such         *)
(* segment: it resumes a suspended handler with the outcome of the call    *)
(* it was awaiting (success or rejection, chosen by the environment),      *)
(* applies the store write that call made, and runs the code up to the     *)
(* next await.  Calls that only read the platform (fetching a channel, a   *)
(* user, a thread) are folded into the step that uses what they return.    *)
(***************************************************************************)
EXTENDS Integers, Sequences, FiniteSets

\* ---------------------------------------------------------------- bounds
InitTickets == 1   \* persisted open tickets found at startup
MaxOpen     == 2   \* intake invocations
MaxClose    == 2   \* close-request invocations
MaxMsgs     == 1   \* message events posted by users
NUsers      == 2   \* distinct platform users
MaxRequests == 2   \* intake, close and message events altogether
MaxThread   == 2   \* messages a staff thread holds when its ticket is closed

Bot      == 0
Requester == 1       \* the user who opens tickets; users 2.. are other members
Users    == 1..NUsers
Channels == 1..(InitTickets + MaxOpen)
Closers  == 1..MaxClose
Openers  == 1..MaxOpen

VARIABLES
  env,             \* configuration: TRANSCRIPT_CHANNEL_ID set, STAFF_ROLE_IDS non-empty
  Tickets,         \* store table Tickets, row id = index
  TicketMessages,  \* store table TicketMessages, in insertion (sentAt) order
  ActiveTickets,   \* Ticket.ActiveTickets: channel id -> ticket id, 0 when absent
  channels,        \* platform: ids of the ticket channels that exist
  created,         \* platform: number of channel ids handed out so far
  reload,          \* the reloadTickets run
  open,            \* createNewTicket invocations
  close,           \* static closeTicket invocations (each runs the instance closeTicket)
  inflight,        \* handleNewMessage calls whose store write has not returned
  posted,          \* number of user message events so far
  timers,          \* close invocations whose setTimeout callback has not run
  deleted,         \* close invocations whose setTimeout callback has run
  categoryRows,    \* store table TicketCategories: ids of the rows that exist
  del,             \* the running `ticket-category delete` command
  TicketMembers,   \* store table TicketMembers
  form,            \* one form submission on its way to the introductory message
  render,          \* one run of the transcript renderer
  modals,          \* the form submissions (ModalSubmit interactions) received
  member,          \* the running add or remove participant command
  permissionOverwrites  \* platform: the (channel, user) pairs granted ViewChannel
                        \* by an add participant command

vars == <<env, Tickets, TicketMessages, ActiveTickets, channels, created,
          reload, open, close, inflight, posted, timers, deleted,
          categoryRows, del, TicketMembers, form, render, modals, member,
          permissionOverwrites>>

\* what the ticket handler's lifecycle methods never write
restVars == <<categoryRows, del, TicketMembers, form, render, modals, member, permissionOverwrites>>

storeVars    == <<Tickets, TicketMessages>>
platformVars == <<channels, created>>

\* ------------------------------------------------------------- helpers
TicketIds == 1..Len(Tickets)

IsOpen(t) == Tickets[t].closedAt = FALSE

\* prisma.tickets.update({ where: { id }, data: { closedAt } })
ToggleClosedAt(t) == [Tickets EXCEPT ![t].closedAt = ~@]
SetClosedAt(t) == [Tickets EXCEPT ![t].closedAt = TRUE]

\* prisma.ticketMessages.create({ data: { ticket, authorId, content } })
AppendMessage(t, author, content) ==
  Append(TicketMessages, [ticket |-> t, authorId |-> author, content |-> content])

\* Ticket.getTicket
getTicketOrFirst(ch) ==
  IF ActiveTickets[ch] # 0 THEN ActiveTickets[ch] ELSE IF Len(Tickets) > 0 THEN 1 ELSE 0
getTicket(ch) == ActiveTickets[ch]

\* this.ActiveTickets.set(channel.id, ticket)
RegisterByTicketId(ch, t) == [ActiveTickets EXCEPT ![t] = t]
RegisterNothing(ch, t) == ActiveTickets
Register(ch, t) == [ActiveTickets EXCEPT ![ch] = t]

\* ------------------------------------------------------------------ Init
\* The persisted ticket categories: whether a transaction id is required
\* (requireTbxId) and how many form fields the category defines.
TicketCategories ==
  <<[requireTbxId |-> FALSE, fields |-> 0],
    [requireTbxId |-> TRUE,  fields |-> 1],
    [requireTbxId |-> FALSE, fields |-> 1]>>

IdleDelete == [pc |-> "idle", cat |-> 0]
IdleForm   == [pc |-> "idle"]
IdleRender == [pc |-> "idle"]
IdleMember == [pc |-> "idle", op |-> "none", ticket |-> 0, userId |-> 0, wrote |-> {}]

\* every category row exists, no command runs, no participant was ever added
RestInit ==
  /\ categoryRows = DOMAIN TicketCategories
  /\ del = IdleDelete
  /\ TicketMembers = <<>>
  /\ form = IdleForm
  /\ render = IdleRender
  /\ modals = <<>>
  /\ member = IdleMember
  /\ permissionOverwrites = {}

IdleCloser ==
  [pc |-> "idle", ch |-> 0, user |-> 0, ticket |-> 0, modalInteraction |-> 0,
   staffThread |-> FALSE, staffMessages |-> 0, buf |-> FALSE, success |-> "none",
   wrote |-> {},
   archive |-> "none", staff |-> "none", dm |-> "none", summary |-> "none"]

\* id: the category_id argument; cat: categoryData; purchase: the local
\* `purchase`, unassigned until Tebex.verifyPurchase has returned;
\* categoryChannel: what client.channels.fetch(categoryData.categoryId) returned;
\* modalInteraction: the submission awaitModalSubmit returned, by its place in
\* modals
IdleOpener ==
  [pc |-> "idle", user |-> 0, id |-> 0, cat |-> 0, ch |-> 0, ticket |-> 0, tbx |-> FALSE,
   purchase |-> "unassigned", categoryChannel |-> "none", modalInteraction |-> 0]

\* The store as a previous run of the bot left it: n open tickets, each bound
\* to its own channel; some of these channels were deleted while the bot was down.
Init ==
  \E n \in 0..InitTickets :
  \E alive \in SUBSET (1..n) :
  \E threads \in SUBSET (1..n) :
  \E tc \in BOOLEAN, staff \in BOOLEAN :
    /\ env = [TRANSCRIPT_CHANNEL_ID |-> tc, STAFF_ROLE_IDS |-> staff]
    /\ Tickets = [t \in 1..n |->
                    [category |-> 1, channelId |-> t, userId |-> 1,
                     closedAt |-> FALSE, staffThreadId |-> t \in threads]]
    /\ TicketMessages = <<>>
    /\ ActiveTickets = [ch \in Channels |-> 0]
    /\ channels = alive
    /\ created = n
    /\ reload = [pc |-> "findMany", list |-> <<>>, idx |-> 1]
    /\ open = [p \in Openers |-> IdleOpener]
    /\ close = [p \in Closers |-> IdleCloser]
    /\ inflight = <<>>
    /\ posted = 0
    /\ timers = {}
    /\ deleted = {}
    /\ RestInit

\* The event handlers run once startup has issued its query: reloadTickets is
\* the first thing to read the store.
Started == reload.pc # "findMany"

\* the events handled so far
Requests ==
  Cardinality({p \in Openers : open[p].pc # "idle"})
    + Cardinality({p \in Closers : close[p].pc # "idle"}) + posted

\* a handler that has ended keeps its outcome and forgets its locals
EndedOpener(o, outcome) == [IdleOpener EXCEPT !.pc = outcome]
EndedCloser(c, outcome) == [IdleCloser EXCEPT !.pc = outcome, !.ch = c.ch, !.success = c.success]

\* ------------------------------------------------------- reloadTickets
OpenTicketList ==
  LET F[i \in 0..Len(Tickets)] ==
        IF i = 0 THEN <<>>
        ELSE IF IsOpen(i) THEN Append(F[i - 1], i) ELSE F[i - 1]
  IN F[Len(Tickets)]

ReloadNext(r) ==
  IF r.idx + 1 > Len(r.list) THEN [r EXCEPT !.pc = "done", !.idx = r.idx + 1]
  ELSE [r EXCEPT !.pc = "fetch", !.idx = r.idx + 1]

\* prisma.tickets.findMany({ where: { closedAt: null } }) returns
reloadTickets_findMany ==
  /\ reload.pc = "findMany"
  /\ reload' = [pc |-> IF OpenTicketList = <<>> THEN "done" ELSE "fetch",
                list |-> OpenTicketList, idx |-> 1]
  /\ UNCHANGED <<env, restVars, storeVars, ActiveTickets, platformVars, open, close,
                 inflight, posted, timers, deleted>>

\* client.channels.fetch(ticketData.channelId) returns or rejects
reloadTickets_fetch ==
  /\ reload.pc = "fetch"
  /\ LET t  == reload.list[reload.idx]
         ch == Tickets[t].channelId
     IN \/ /\ ch \in channels            \* the channel was found
           /\ ActiveTickets' = Register(ch, t)
           /\ reload' = ReloadNext(reload)
        \/ /\ ch \notin channels         \* unknown channel: the fetch rejects
           /\ reload' = [reload EXCEPT !.pc = "update"]
           /\ UNCHANGED ActiveTickets
        \/ /\ ch \in channels            \* the fetch rejects for another reason
           /\ reload' = [reload EXCEPT !.pc = "update"]
           /\ UNCHANGED ActiveTickets
  /\ UNCHANGED <<env, restVars, storeVars, platformVars, open, close,
                 inflight, posted, timers, deleted>>

\* prisma.tickets.update({ data: { closedAt } }) of the catch block returns or rejects
reloadTickets_update ==
  /\ reload.pc = "update"
  /\ \/ /\ Tickets' = SetClosedAt(reload.list[reload.idx])
        /\ reload' = [reload EXCEPT !.pc = "create"]
     \/ /\ reload' = [reload EXCEPT !.pc = "aborted"]   \* rejection leaves the loop
        /\ UNCHANGED Tickets
  /\ UNCHANGED <<env, restVars, TicketMessages, ActiveTickets, platformVars, open, close,
                 inflight, posted, timers, deleted>>

\* prisma.ticketMessages.create of the catch block returns or rejects
reloadTickets_create ==
  /\ reload.pc = "create"
  /\ \/ /\ TicketMessages' = AppendMessage(reload.list[reload.idx], Bot, "closed")
        /\ reload' = ReloadNext(reload)
     \/ /\ reload' = [reload EXCEPT !.pc = "aborted"]
        /\ UNCHANGED TicketMessages
  /\ UNCHANGED <<env, restVars, Tickets, ActiveTickets, platformVars, open, close,
                 inflight, posted, timers, deleted>>


\* ------------------------------------------------- closeTicket (static)
\* Invocations are numbered in the order in which they arrive.
NextCloser(p) ==
  /\ close[p].pc = "idle"
  /\ \A q \in Closers : q < p => close[q].pc # "idle"

\* Ticket.closeTicket(channelId, interaction), up to awaitModalSubmit
Static_closeTicket(p, ch, u) ==
  /\ Started
  /\ Requests < MaxRequests
  /\ NextCloser(p)
  /\ ch \in channels
  /\ IF getTicket(ch) = 0
       THEN close' = [close EXCEPT ![p] =
                        [IdleCloser EXCEPT !.pc = "ChannelNotTicket", !.ch = ch]]
       ELSE close' = [close EXCEPT ![p] =
                        [IdleCloser EXCEPT !.pc = "awaitModalSubmit", !.ch = ch, !.user = u,
                                           !.ticket = getTicket(ch)]]
  /\ UNCHANGED <<env, restVars, storeVars, ActiveTickets, platformVars, reload, open,
                 inflight, posted, timers, deleted>>

\* a closure prompt whose timeout drops the ticket from the registry
Static_closeTicket_modalUnregisters(p) ==
  /\ close[p].pc = "awaitModalSubmit"
  /\ \/ /\ close' = [close EXCEPT ![p].pc = "findUnique"]
        /\ UNCHANGED ActiveTickets
     \/ /\ close' = [close EXCEPT ![p] = EndedCloser(close[p], "cancelled")]
        /\ ActiveTickets' = [ActiveTickets EXCEPT ![close[p].ch] = 0]
     \/ /\ close' = [close EXCEPT ![p] = EndedCloser(close[p], "aborted")]
        /\ UNCHANGED ActiveTickets
  /\ UNCHANGED <<env, restVars, storeVars, platformVars, reload, open,
                 inflight, posted, timers, deleted>>

\* showModal / awaitModalSubmit / deferReply return or reject; on a submission
\* the instance closeTicket is called and runs up to its first await
Static_closeTicket_modal(p) ==
  /\ close[p].pc = "awaitModalSubmit"
  /\ \/ close' = [close EXCEPT ![p].pc = "findUnique"]   \* submitted, reply deferred
     \/ close' = [close EXCEPT ![p] = EndedCloser(close[p], "cancelled")]    \* timeout: "Closure cancelled"
     \/ close' = [close EXCEPT ![p] = EndedCloser(close[p], "aborted")]      \* showModal or deferReply rejects
  /\ UNCHANGED <<env, restVars, storeVars, ActiveTickets, platformVars, reload, open,
                 inflight, posted, timers, deleted>>

\* if (success) this.ActiveTickets.delete(channelId)
UnregisterNever(ch, success) == ActiveTickets
Unregister(ch, success) ==
  IF success THEN [ActiveTickets EXCEPT ![ch] = 0] ELSE ActiveTickets

\* setTimeout(() => this.channel.delete(...), 500)
ScheduleNothing(p) == timers
ScheduleDeletion(p) == timers \cup {p}

\* The instance closeTicket returns `ok` to the static closeTicket, which goes
\* on to its next await (deleteReply) in the same turn.
Return(p, c, ok) ==
  /\ close' = [close EXCEPT ![p] =
                 [c EXCEPT !.success = IF ok THEN "true" ELSE "false", !.pc = "deleteReply"]]
  /\ ActiveTickets' = Unregister(c.ch, ok)

Goto(p, c, pc) ==
  /\ close' = [close EXCEPT ![p] = [c EXCEPT !.pc = pc]]
  /\ UNCHANGED <<ActiveTickets, timers>>

\* the end of the try block: the timer is set and true is returned
Finish(p, c) ==
  /\ timers' = ScheduleDeletion(p)
  /\ Return(p, c, TRUE)

\* the outer catch: false is returned
Fail(p, c) ==
  /\ UNCHANGED timers
  /\ Return(p, c, FALSE)

\* --------------------------------------------- closeTicket (instance)
\* prisma.tickets.findUnique (ticketInfo) returns or rejects
closeTicket_findUnique(p) ==
  /\ close[p].pc = "findUnique"
  /\ \/ Goto(p, [close[p] EXCEPT !.staffThread = Tickets[close[p].ticket].staffThreadId],
             "update")
     \/ Fail(p, close[p])
  /\ UNCHANGED <<env, restVars, storeVars, platformVars, reload, open,
                 inflight, posted, deleted>>

\* prisma.tickets.update({ data: { closedAt } }) returns or rejects
closeTicket_update(p) ==
  /\ close[p].pc = "update"
  /\ \/ /\ Tickets' = SetClosedAt(close[p].ticket)
        /\ Goto(p, [close[p] EXCEPT !.wrote = @ \cup {"closedAt"}], "create")
     \/ /\ UNCHANGED Tickets
        /\ Fail(p, close[p])
  /\ UNCHANGED <<env, restVars, TicketMessages, platformVars, reload, open,
                 inflight, posted, deleted>>

\* prisma.ticketMessages.create (closure embed) returns or rejects
closeTicket_create(p) ==
  /\ close[p].pc = "create"
  /\ \/ /\ TicketMessages' = AppendMessage(close[p].ticket, close[p].user, "closed")
        /\ Goto(p, [close[p] EXCEPT !.wrote = @ \cup {"message"}], "transcript")
     \/ /\ UNCHANGED TicketMessages
        /\ Fail(p, close[p])
  /\ UNCHANGED <<env, restVars, Tickets, platformVars, reload, open,
                 inflight, posted, deleted>>

\* generateTicketTranscript returns or throws (caught).  Without a transcript
\* buffer every fan-out block is skipped and the sequence runs to its end.
closeTicket_transcript(p) ==
  /\ close[p].pc = "transcript"
  /\ \/ Goto(p, [close[p] EXCEPT !.buf = TRUE], "fanout")
     \/ Finish(p, [close[p] EXCEPT !.buf = FALSE])
  /\ UNCHANGED <<env, restVars, storeVars, platformVars, reload, open,
                 inflight, posted, deleted>>

\* The outcomes the platform can give each fan-out block.
ArchiveOutcomes == {"sent", "failed", "no channel"}
StaffOutcomes   == {"sent", "failed", "seed only"}
DmOutcomes      == {"sent", "failed"}

\* if (env.TRANSCRIPT_CHANNEL_ID && ticketInfo && transcriptBuffer):
\* channels.fetch(TRANSCRIPT_CHANNEL_ID), transcriptChannel.send
ArchiveBlock(c, a) ==
  IF env.TRANSCRIPT_CHANNEL_ID /\ c.buf THEN [c EXCEPT !.archive = a] ELSE c

\* staffMessages.size > 1
NotEmpty(staffMessages) == staffMessages > 0
MoreThanSeed(staffMessages) == staffMessages > 1

\* if (ticketInfo.staffThreadId), inside the archive block after its send:
\* fetch of the thread and of its n messages, send when staffMessages.size > 1;
\* s tells whether one of the calls rejects
StaffBlock(c, s, n) ==
  IF c.archive = "sent" /\ c.staffThread
    THEN [c EXCEPT !.staffMessages = n,
                   !.staff = IF s = "failed" THEN "failed"
                             ELSE IF MoreThanSeed(n) THEN "sent"
                             ELSE "seed only"]
    ELSE c

\* if (ticketInfo && transcriptBuffer): users.fetch(ticketInfo.userId), ticketOwner.send
DmBlock(c, d) ==
  IF c.buf THEN [c EXCEPT !.dm = d] ELSE c

\* a rejection inside a fan-out block is caught by the block and logged
FanoutRethrown(c) == c.archive # "failed" /\ c.staff # "failed" /\ c.dm # "failed"
FanoutResult(c) == TRUE

\* the three fan-out blocks, each call resolving or rejecting; then the timer
\* is set and true is returned
closeTicket_fanout(p) ==
  /\ close[p].pc = "fanout"
  /\ \E a \in ArchiveOutcomes, s \in StaffOutcomes, d \in DmOutcomes,
        n \in 0..MaxThread :
       LET c == DmBlock(StaffBlock(ArchiveBlock(close[p], a), s, n), d)
       IN IF FanoutResult(c) THEN Finish(p, c) ELSE Fail(p, c)
  /\ UNCHANGED <<env, restVars, storeVars, platformVars, reload, open,
                 inflight, posted, deleted>>

\* dbUser.userId === modalInteraction.user.id
SummarySkipped(c) == Tickets[c.ticket].userId = c.user

\* The rest of the static closeTicket: deleteReply, findUnique (dbUser),
\* members.fetch and user.send of the closure embed
Static_closeTicket_notify(p) ==
  /\ close[p].pc = "deleteReply"
  /\ \/ close' = [close EXCEPT ![p] = EndedCloser(close[p], "aborted")]  \* a rejection
     \/ /\ SummarySkipped(close[p])
        /\ close' = [close EXCEPT ![p] = EndedCloser(close[p], "done")]
     \/ /\ ~SummarySkipped(close[p])
        /\ \E outcome \in {"sent", "failed"} :
             close' = [close EXCEPT ![p] =
                         [EndedCloser(close[p], "done") EXCEPT !.summary = outcome]]
  /\ UNCHANGED <<env, restVars, storeVars, ActiveTickets, platformVars, reload, open,
                 inflight, posted, timers, deleted>>

\* the setTimeout callback: this.channel.delete(...).catch(log)
DeletionTimer(p) ==
  /\ p \in timers
  /\ timers' = timers \ {p}
  /\ deleted' = deleted \cup {p}
  /\ \/ /\ close[p].ch \in channels
        /\ channels' = channels \ {close[p].ch}
     \/ UNCHANGED channels                 \* the delete rejects: logged
  /\ UNCHANGED <<env, restVars, storeVars, ActiveTickets, created, reload, open, close,
                 inflight, posted>>

\* --------------------------------------------------- message dispatch
\* Ticket.updateMessages(message): a lookup by channel id, then
\* handleNewMessage, which is not awaited
Dispatch(ch, author, content) ==
  IF getTicket(ch) = 0 THEN inflight
  ELSE Append(inflight, [ticket |-> getTicket(ch), authorId |-> author, content |-> content])

\* a message event of a user
updateMessages(ch, u) ==
  /\ Started
  /\ Requests < MaxRequests
  /\ posted < MaxMsgs
  /\ ch \in channels
  /\ posted' = posted + 1
  /\ inflight' = Dispatch(ch, u, "text")
  /\ UNCHANGED <<env, restVars, storeVars, ActiveTickets, platformVars, reload, open, close,
                 timers, deleted>>

RemoveAt(s, i) == SubSeq(s, 1, i - 1) \o SubSeq(s, i + 1, Len(s))

\* prisma.ticketMessages.create of handleNewMessage returns or rejects
handleNewMessage_create(i) ==
  /\ i \in DOMAIN inflight
  /\ inflight' = RemoveAt(inflight, i)
  /\ \/ TicketMessages' = AppendMessage(inflight[i].ticket, inflight[i].authorId,
                                        inflight[i].content)
     \/ UNCHANGED TicketMessages
  /\ UNCHANGED <<env, restVars, Tickets, ActiveTickets, platformVars, reload, open, close,
                 posted, timers, deleted>>

\* ------------------------------------------------------ createNewTicket
\* The value of the select menu's placeholder option, offered when no category
\* exists; parseInt turns it into the category_id argument.
PlaceholderValue == -1

\* the category_id arguments a request can carry
CategoryIds == PlaceholderValue..Len(TicketCategories)

\* getCategoryData({ id }): null when no category has the id
getCategoryDataOrFirst(id) == IF id \in categoryRows THEN id ELSE 1
getCategoryData(id) == IF id \in categoryRows THEN id ELSE 0

\* !categoryData.requireTbxId && categoryData.fields.length === 0
FastPathWithoutToken(cat) == ~TicketCategories[cat].requireTbxId
FastPath(cat) ==
  ~TicketCategories[cat].requireTbxId /\ TicketCategories[cat].fields = 0

NextOpener(p) ==
  /\ open[p].pc = "idle"
  /\ \A q \in Openers : q < p => open[q].pc # "idle"

\* The outcomes of the calls between the form and guild.channels.create:
\* Tebex.verifyPurchase (only when the category requires a transaction id,
\* and only reached with a non-empty tbxid answer), then
\* client.channels.fetch(categoryData.categoryId)
VerifyOutcomes == {"verified", "rejected"}
FetchOutcomes  == {"found", "null", "rejects"}

\* if (!tbxid) return; purchase = await verifyPurchase(tbxid); if (!purchase.success) return
VerificationSkipped(cat, tbxid, v) == "ok"
Verification(cat, tbxid, v) ==
  IF ~TicketCategories[cat].requireTbxId THEN "ok"
  ELSE IF tbxid /\ v = "verified" THEN "ok"
  ELSE "VerificationFailed"

\* categoryChannel = await client.channels.fetch(...); if (!categoryChannel) return
ProvisioningUnchecked(f) == IF f = "rejects" THEN "aborted" ELSE "channelCreate"
Provisioning(f) ==
  CASE f = "found"   -> "channelCreate"
    [] f = "null"    -> "ProvisioningFailed"
    [] f = "rejects" -> "aborted"

\* where an intake stands once the category channel has been looked up
Advance(o, next) ==
  IF next = "channelCreate" THEN [o EXCEPT !.pc = next] ELSE EndedOpener(o, next)

\* Ticket.createNewTicket(client, interaction, category_id), up to
\* guild.channels.create (fast path) or to awaitModalSubmit (form path)
createNewTicket(p, u, id) ==
  /\ Started
  /\ Requests < MaxRequests
  /\ NextOpener(p)
  /\ LET o == [IdleOpener EXCEPT !.user = u, !.id = id, !.cat = getCategoryData(id)]
     IN \/ /\ o.cat = 0                                  \* reply 'Invalid Data'
           /\ open' = [open EXCEPT ![p] = EndedOpener(o, "CategoryNotFound")]
        \/ /\ o.cat # 0
           /\ open' = [open EXCEPT ![p] = EndedOpener(o, "aborted")]  \* guilds.fetch rejects
        \/ /\ o.cat # 0
           /\ ~FastPath(o.cat)
           /\ open' = [open EXCEPT ![p] = [o EXCEPT !.pc = "awaitModalSubmit"]]
        \/ /\ o.cat # 0
           /\ FastPath(o.cat)
           /\ \E f \in FetchOutcomes :
                open' = [open EXCEPT ![p] =
                           Advance([o EXCEPT !.categoryChannel = f], Provisioning(f))]
  /\ UNCHANGED <<env, restVars, storeVars, ActiveTickets, platformVars, reload, close,
                 inflight, posted, timers, deleted>>

\* the intake from the deferred reply to guild.channels.create: the purchase
\* is verified and the category channel looked up
Deferred(o, tbxid, tbx, v, f) ==
  IF Verification(o.cat, tbxid, v) = "ok"
    THEN Advance([o EXCEPT !.tbx = tbx,
                           !.purchase = IF tbxid THEN v ELSE "unassigned",
                           !.categoryChannel = f],
                 Provisioning(f))
    ELSE EndedOpener(o, "VerificationFailed")

\* an intake form whose timeout leaves a channel behind
createNewTicket_modalProvisionsOnTimeout(p) ==
  /\ open[p].pc = "awaitModalSubmit"
  /\ created < InitTickets + MaxOpen
  /\ created' = created + 1
  /\ channels' = channels \cup {created + 1}
  /\ open' = [open EXCEPT ![p] = EndedOpener(open[p], "IntakeCancelled")]
  /\ UNCHANGED <<env, restVars, storeVars, ActiveTickets, reload, close,
                 inflight, posted, timers, deleted>>

\* awaitModalSubmit returns a submission or rejects on the 60 s timeout; after
\* a submission the purchase is verified and the category channel looked up.
\* tbxid: the transaction id input was answered; tbx: a retained answer of a
\* category that requires no transaction id matches tbxIdRegex.
createNewTicket_modal(p) ==
  /\ open[p].pc = "awaitModalSubmit"
  /\ \/ open' = [open EXCEPT ![p] = EndedOpener(open[p], "IntakeCancelled")]
     \/ open' = [open EXCEPT ![p] = EndedOpener(open[p], "aborted")]  \* deferReply rejects
     \/ \E tbxid \in BOOLEAN, tbx \in BOOLEAN, v \in VerifyOutcomes, f \in FetchOutcomes :
          /\ tbxid => TicketCategories[open[p].cat].requireTbxId
          /\ tbx => ~TicketCategories[open[p].cat].requireTbxId
          /\ open' = [open EXCEPT ![p] = Deferred(open[p], tbxid, tbx, v, f)]
  /\ UNCHANGED <<env, restVars, storeVars, ActiveTickets, platformVars, reload, close,
                 inflight, posted, timers, deleted>>

\* guild.channels.create: the platform hands out a channel id never used before
ReusedChannelId == IF created = 0 THEN 1 ELSE created
NewChannelId == created + 1

\* tbxIdRegex.test(response) && purchase.success, with purchase unassigned
\* when the category requires no transaction id
FieldsThrow(o) == o.tbx /\ ~TicketCategories[o.cat].requireTbxId

\* guild.channels.create returns or rejects; the fast path then awaits
\* editReply, the form path builds the embed fields and issues tickets.create
createNewTicket_channelCreate(p) ==
  /\ open[p].pc = "channelCreate"
  /\ \/ /\ created < InitTickets + MaxOpen
        /\ created' = created + 1
        /\ channels' = channels \cup {NewChannelId}
        /\ open' = [open EXCEPT ![p] =
                      IF FastPath(open[p].cat)
                        THEN [open[p] EXCEPT !.ch = NewChannelId, !.pc = "editReply"]
                      ELSE IF FieldsThrow(open[p])
                        THEN EndedOpener(open[p], "aborted")
                      ELSE [open[p] EXCEPT !.ch = NewChannelId, !.pc = "ticketCreate"]]
     \/ /\ open' = [open EXCEPT ![p] = EndedOpener(open[p], "aborted")]
        /\ UNCHANGED platformVars
  /\ UNCHANGED <<env, restVars, storeVars, ActiveTickets, reload, close,
                 inflight, posted, timers, deleted>>

\* interaction.editReply of the fast path returns or rejects
createNewTicket_editReply(p) ==
  /\ open[p].pc = "editReply"
  /\ \/ open' = [open EXCEPT ![p].pc = "ticketCreate"]
     \/ open' = [open EXCEPT ![p] = EndedOpener(open[p], "aborted")]
  /\ UNCHANGED <<env, restVars, storeVars, ActiveTickets, platformVars, reload, close,
                 inflight, posted, timers, deleted>>

\* data: { category, channelId: channel.id, userId: user.id, ... }
TicketRowOfCategoryChannel(o) ==
  [category |-> o.cat, channelId |-> o.cat, userId |-> o.user,
   closedAt |-> FALSE, staffThreadId |-> FALSE]
TicketRow(o) ==
  [category |-> o.cat, channelId |-> o.ch, userId |-> o.user,
   closedAt |-> FALSE, staffThreadId |-> FALSE]

\* Tickets.category is a foreign key into TicketCategories: the store accepts
\* a Ticket row only while its category row exists
ReferenceUnchecked(row) == TRUE
ReferenceHolds(row) == row.category \in categoryRows

\* prisma.tickets.create returns or rejects; the ticket is registered and
\* channel.send is issued in the same turn
createNewTicket_ticketCreate(p) ==
  /\ open[p].pc = "ticketCreate"
  /\ \/ LET t == Len(Tickets) + 1
        IN /\ ReferenceHolds(TicketRow(open[p]))
           /\ Tickets' = Append(Tickets, TicketRow(open[p]))
           /\ ActiveTickets' = Register(open[p].ch, t)
           /\ open' = [open EXCEPT ![p].ticket = t, ![p].pc = "send"]
     \/ /\ open' = [open EXCEPT ![p] = EndedOpener(open[p], "aborted")]
        /\ UNCHANGED <<Tickets, ActiveTickets>>
  /\ UNCHANGED <<env, restVars, TicketMessages, platformVars, reload, close,
                 inflight, posted, timers, deleted>>

\* channel.send (introductory message) returns or rejects; the message event of
\* the bot's own message is dispatched with it
createNewTicket_send(p) ==
  /\ open[p].pc = "send"
  /\ \/ /\ inflight' = Dispatch(open[p].ch, Bot, "intro")
        /\ open' = [open EXCEPT ![p] =
                      IF env.STAFF_ROLE_IDS THEN [open[p] EXCEPT !.pc = "threadCreate"]
                      ELSE EndedOpener(open[p], "done")]
     \/ /\ open' = [open EXCEPT ![p] = EndedOpener(open[p], "aborted")]
        /\ UNCHANGED inflight
  /\ UNCHANGED <<env, restVars, storeVars, ActiveTickets, platformVars, reload, close,
                 posted, timers, deleted>>

\* a staff thread block whose failure ends the intake
createNewTicket_threadFatal(p) ==
  /\ open[p].pc = "threadCreate"
  /\ \/ /\ Tickets' = [Tickets EXCEPT ![open[p].ticket].staffThreadId = TRUE]
        /\ open' = [open EXCEPT ![p] = EndedOpener(open[p], "done")]
     \/ /\ UNCHANGED Tickets
        /\ open' = [open EXCEPT ![p] = EndedOpener(open[p], "aborted")]
  /\ UNCHANGED <<env, restVars, TicketMessages, ActiveTickets, platformVars, reload, close,
                 inflight, posted, timers, deleted>>

\* The staff thread block: channel.threads.create, then
\* prisma.tickets.update({ data: { staffThreadId } }), then thread.send; a
\* rejection of any of them is caught and logged
createNewTicket_thread(p) ==
  /\ open[p].pc = "threadCreate"
  /\ \/ Tickets' = [Tickets EXCEPT ![open[p].ticket].staffThreadId = TRUE]
     \/ UNCHANGED Tickets
  /\ open' = [open EXCEPT ![p] = EndedOpener(open[p], "done")]
  /\ UNCHANGED <<env, restVars, TicketMessages, ActiveTickets, platformVars, reload, close,
                 inflight, posted, timers, deleted>>

Next ==
  \/ reloadTickets_findMany
  \/ reloadTickets_fetch
  \/ reloadTickets_update
  \/ reloadTickets_create
  \/ \E p \in Closers :
       \/ \E ch \in Channels, u \in Users : Static_closeTicket(p, ch, u)
       \/ Static_closeTicket_modal(p)
       \/ closeTicket_findUnique(p)
       \/ closeTicket_update(p)
       \/ closeTicket_create(p)
       \/ closeTicket_transcript(p)
       \/ closeTicket_fanout(p)
       \/ Static_closeTicket_notify(p)
       \/ DeletionTimer(p)
  \/ \E p \in Openers :
       \/ \E id \in CategoryIds : createNewTicket(p, Requester, id)
       \/ createNewTicket_modal(p)
       \/ createNewTicket_channelCreate(p)
       \/ createNewTicket_editReply(p)
       \/ createNewTicket_ticketCreate(p)
       \/ createNewTicket_send(p)
       \/ createNewTicket_thread(p)
  \/ \E ch \in Channels :
       \/ \E u \in Users : updateMessages(ch, u)
  \/ \E i \in 1..(MaxMsgs + MaxOpen) : handleNewMessage_create(i)

Spec == Init /\ [][Next]_vars

\* the open tickets a store can hold at startup: one per channel id
RecoveryTickets == InitTickets + MaxOpen

\* ------------------------------------------- ticket-category delete
\* category._count.tickets
CountTickets(cat) == Cardinality({t \in TicketIds : Tickets[t].category = cat})

DeleteEnded == {"idle", "NotFound", "Refused", "Deleted", "Failed"}

\* the delete subcommand up to prisma.ticketCategories.delete: findUnique
\* returns the category with its ticket count, or null
ticket_category_delete(cat) ==
  /\ del.pc \in DeleteEnded
  /\ \/ /\ cat \notin categoryRows
        /\ del' = [pc |-> "NotFound", cat |-> cat]
     \/ /\ cat \in categoryRows
        /\ CountTickets(cat) > 0
        /\ del' = [pc |-> "Refused", cat |-> cat]
     \/ /\ cat \in categoryRows
        /\ CountTickets(cat) = 0
        /\ del' = [pc |-> "delete", cat |-> cat]
     \/ del' = [pc |-> "Failed", cat |-> cat]          \* findUnique rejects
  /\ UNCHANGED <<env, Tickets, TicketMessages, ActiveTickets, channels, created,
                 reload, open, close, inflight, posted, timers, deleted,
                 categoryRows, TicketMembers, form, render, modals, member, permissionOverwrites>>

\* Tickets.category is a foreign key: the store removes a category row only
\* while no Ticket row references it
DeletionHolds(cat) == CountTickets(cat) = 0

\* prisma.ticketCategories.delete returns or rejects
ticket_category_delete_apply ==
  /\ del.pc = "delete"
  /\ \/ /\ DeletionHolds(del.cat)
        /\ categoryRows' = categoryRows \ {del.cat}
        /\ del' = [del EXCEPT !.pc = "Deleted"]
     \/ /\ UNCHANGED categoryRows
        /\ del' = [del EXCEPT !.pc = "Failed"]
  /\ UNCHANGED <<env, Tickets, TicketMessages, ActiveTickets, channels, created,
                 reload, open, close, inflight, posted, timers, deleted,
                 TicketMembers, form, render, modals, member, permissionOverwrites>>

\* The bot with no ticket yet, its startup pass over, handling intakes and
\* delete commands.
CategoryInit ==
  \E staff \in BOOLEAN :
    /\ env = [TRANSCRIPT_CHANNEL_ID |-> FALSE, STAFF_ROLE_IDS |-> staff]
    /\ Tickets = <<>>
    /\ TicketMessages = <<>>
    /\ ActiveTickets = [ch \in Channels |-> 0]
    /\ channels = {}
    /\ created = 0
    /\ reload = [pc |-> "done", list |-> <<>>, idx |-> 1]
    /\ open = [p \in Openers |-> IdleOpener]
    /\ close = [p \in Closers |-> IdleCloser]
    /\ inflight = <<>>
    /\ posted = 0
    /\ timers = {}
    /\ deleted = {}
    /\ RestInit

CategoryNext ==
  \/ \E cat \in DOMAIN TicketCategories : ticket_category_delete(cat)
  \/ ticket_category_delete_apply
  \/ \E p \in Openers :
       \/ \E id \in CategoryIds : createNewTicket(p, Requester, id)
       \/ createNewTicket_modal(p)
       \/ createNewTicket_channelCreate(p)
       \/ createNewTicket_editReply(p)
       \/ createNewTicket_ticketCreate(p)
       \/ createNewTicket_send(p)
       \/ createNewTicket_thread(p)

CategorySpec == CategoryInit /\ [][CategoryNext]_vars

\* ------------------------------------------------- ticket participants
MaxRows == 2   \* TicketMembers rows

\* the rows of the pair (ticket, userId), the table's compound unique key
RowsOf(M, t, u) == {i \in DOMAIN M : M[i].ticket = t /\ M[i].userId = u}

\* prisma.ticketMembers.upsert({ where: { ticket_userId }, update, create })
InsertRow(t, u, by) ==
  Append(TicketMembers, [ticket |-> t, userId |-> u, addedBy |-> by,
                         addedAt |-> "create", removed |-> FALSE])
Upsert(t, u, by) ==
  IF RowsOf(TicketMembers, t, u) = {}
    THEN Append(TicketMembers, [ticket |-> t, userId |-> u, addedBy |-> by,
                                addedAt |-> "create", removed |-> FALSE])
    ELSE [i \in DOMAIN TicketMembers |->
            IF i \in RowsOf(TicketMembers, t, u)
              THEN [TicketMembers[i] EXCEPT !.removed = FALSE, !.addedBy = by,
                                            !.addedAt = "update"]
              ELSE TicketMembers[i]]

\* prisma.ticketMembers.update({ where: { ticket_userId }, data: { removed: 1 } })
MarkRemoved(t, u) ==
  [i \in DOMAIN TicketMembers |->
     IF i \in RowsOf(TicketMembers, t, u)
       THEN [TicketMembers[i] EXCEPT !.removed = TRUE] ELSE TicketMembers[i]]

\* no add or remove command is between two awaits
MemberEnded == member.pc \in {"idle", "true", "false"}

\* the command's locals on its way to the permission overwrite
MemberCommand(op, t, u) ==
  [pc |-> "permissionOverwrites", op |-> op, ticket |-> t, userId |-> u,
   wrote |-> {"row"}]

\* a command that has returned keeps what it returned and what it had written
MemberReturned(result, wrote) == [IdleMember EXCEPT !.pc = result, !.wrote = wrote]

\* ticket.addTicketParticipant(addedUser, by), up to
\* permissionOverwrites.create: the upsert returns or rejects
addTicketParticipant(t, u, by) ==
  /\ MemberEnded
  /\ getTicket(Tickets[t].channelId) = t
  /\ RowsOf(TicketMembers, t, u) = {} => Len(TicketMembers) < MaxRows
  /\ \/ /\ TicketMembers' = Upsert(t, u, by)
        /\ member' = MemberCommand("add", t, u)
     \/ /\ UNCHANGED TicketMembers
        /\ member' = MemberReturned("false", {})
  /\ UNCHANGED <<env, Tickets, TicketMessages, ActiveTickets, channels, created,
                 reload, open, close, inflight, posted, timers, deleted,
                 categoryRows, del, form, render, modals, permissionOverwrites>>

\* ticket.removeTicketParticipant(userId, by), up to
\* permissionOverwrites.delete: the update returns or rejects, as it does when
\* the pair has no row
removeTicketParticipant(t, u, by) ==
  /\ MemberEnded
  /\ getTicket(Tickets[t].channelId) = t
  /\ \/ /\ RowsOf(TicketMembers, t, u) # {}
        /\ TicketMembers' = MarkRemoved(t, u)
        /\ member' = MemberCommand("remove", t, u)
     \/ /\ UNCHANGED TicketMembers
        /\ member' = MemberReturned("false", {})
  /\ UNCHANGED <<env, Tickets, TicketMessages, ActiveTickets, channels, created,
                 reload, open, close, inflight, posted, timers, deleted,
                 categoryRows, del, form, render, modals, permissionOverwrites>>

\* this.channel.permissionOverwrites.create(addedUser, { ViewChannel: true }) or
\* this.channel.permissionOverwrites.delete(userId) returns (the command
\* returns true) or rejects (the catch block returns false)
participant_permissionOverwrites ==
  /\ member.pc = "permissionOverwrites"
  /\ LET entry == <<Tickets[member.ticket].channelId, member.userId>>
     IN \/ /\ permissionOverwrites' =
                 IF member.op = "add" THEN permissionOverwrites \cup {entry}
                 ELSE permissionOverwrites \ {entry}
           /\ member' = MemberReturned("true",
                                       member.wrote \cup {"permissionOverwrites"})
        \/ /\ UNCHANGED permissionOverwrites
           /\ member' = MemberReturned("false", member.wrote)
  /\ UNCHANGED <<env, Tickets, TicketMessages, ActiveTickets, channels, created,
                 reload, open, close, inflight, posted, timers, deleted,
                 categoryRows, del, TicketMembers, form, render, modals>>

\* The bot after startup with RecoveryTickets registered open tickets, handling
\* the add and remove participant commands.
MembersInit ==
  /\ env = [TRANSCRIPT_CHANNEL_ID |-> FALSE, STAFF_ROLE_IDS |-> FALSE]
  /\ Tickets = [t \in 1..RecoveryTickets |->
                  [category |-> 1, channelId |-> t, userId |-> 1,
                   closedAt |-> FALSE, staffThreadId |-> FALSE]]
  /\ TicketMessages = <<>>
  /\ ActiveTickets = [ch \in Channels |-> ch]
  /\ channels = Channels
  /\ created = RecoveryTickets
  /\ reload = [pc |-> "done", list |-> [t \in 1..RecoveryTickets |-> t],
               idx |-> RecoveryTickets + 1]
  /\ open = [p \in Openers |-> IdleOpener]
  /\ close = [p \in Closers |-> IdleCloser]
  /\ inflight = <<>>
  /\ posted = 0
  /\ timers = {}
  /\ deleted = {}
  /\ RestInit

MembersNext ==
  \/ \E t \in TicketIds, u \in Users, by \in Users :
       addTicketParticipant(t, u, by)
  \/ \E t \in TicketIds, u \in Users, by \in Users :
       removeTicketParticipant(t, u, by)
  \/ participant_permissionOverwrites

MembersSpec == MembersInit /\ [][MembersNext]_vars

\* ---------------------------------- form answers (createNewTicket, form path)
MaxFields == 2   \* form fields of a category

\* Texts are told apart by what the code tests: the empty text, a text that
\* matches tbxIdRegex ("tbx") and any other text.
Labels    == {"", "label"}
Responses == {"", "text", "tbx"}

\* `${field.id}`: the custom ids of the field inputs
FieldIds == <<"1", "2", "3", "4">>

\* modal.components: the tbxid input when the category requires a transaction
\* id, then one input per category field, each with the submitted value
Components(requireTbxId, tbxid, answers) ==
  (IF requireTbxId
     THEN <<[label |-> "Transaction ID", response |-> tbxid, id |-> "tbxid"]>>
     ELSE <<>>)
  \o [i \in DOMAIN answers |->
        [label |-> answers[i].label, response |-> answers[i].response,
         id |-> FieldIds[i]]]

\* modal.components.map(...).filter((e) => !!(e.label && e.response && e.id))
formattedResponsesUnfiltered(components) == components
formattedResponses(components) ==
  SelectSeq(components, LAMBDA e : e.label # "" /\ e.response # "")

\* tbxIdRegex.test(response) && purchase.success: reading .success of the
\* unassigned purchase is a TypeError
FieldsTypeError(responses, purchase) ==
  purchase = "unassigned" /\ \E k \in DOMAIN responses : responses[k].response = "tbx"

\* formattedResponses.map(({ label, response }) => ...): the embed fields
Fields(responses, purchase) ==
  [k \in DOMAIN responses |->
     IF responses[k].response = "tbx" /\ purchase = "success"
       THEN [name |-> "Purchase Info", value |-> "summary"]
       ELSE [name |-> responses[k].label, value |-> responses[k].response]]

\* awaitModalSubmit has returned a submission: the answers are formatted and,
\* for a category that requires a transaction id, Tebex.verifyPurchase is called
form_submit ==
  /\ form.pc = "awaitModalSubmit"
  /\ LET r    == formattedResponses(form.components)
         tbxs == {k \in DOMAIN r : r[k].id = "tbxid"}
     IN form' = [form EXCEPT
                   !.formattedResponses = r,
                   !.pc = IF ~form.requireTbxId THEN "fields"
                          ELSE IF tbxs = {} THEN "VerificationFailed"
                          ELSE "verifyPurchase"]
  /\ UNCHANGED <<env, Tickets, TicketMessages, ActiveTickets, channels, created,
                 reload, open, close, inflight, posted, timers, deleted,
                 categoryRows, del, TicketMembers, render, modals, member, permissionOverwrites>>

\* Tebex.verifyPurchase returns
form_verifyPurchase ==
  /\ form.pc = "verifyPurchase"
  /\ \/ form' = [form EXCEPT !.purchase = "success", !.pc = "fields"]
     \/ form' = [form EXCEPT !.purchase = "failure", !.pc = "VerificationFailed"]
  /\ UNCHANGED <<env, Tickets, TicketMessages, ActiveTickets, channels, created,
                 reload, open, close, inflight, posted, timers, deleted,
                 categoryRows, del, TicketMembers, render, modals, member, permissionOverwrites>>

\* the channel exists: the fields of the introductory embed are built
form_fields ==
  /\ form.pc = "fields"
  /\ form' = IF FieldsTypeError(form.formattedResponses, form.purchase)
                THEN [form EXCEPT !.pc = "TypeError"]
                ELSE [form EXCEPT !.fields = Fields(form.formattedResponses, form.purchase),
                                  !.pc = "send"]
  /\ UNCHANGED <<env, Tickets, TicketMessages, ActiveTickets, channels, created,
                 reload, open, close, inflight, posted, timers, deleted,
                 categoryRows, del, TicketMembers, render, modals, member, permissionOverwrites>>

AnswerSeqs ==
  UNION {[1..n -> [label : Labels, response : Responses]] : n \in 0..MaxFields}

\* one submitted form: a category that requires a transaction id or defines
\* at least one field, and the submitted values
FormInit ==
  /\ \E requireTbxId \in BOOLEAN, tbxid \in Responses, answers \in AnswerSeqs :
       /\ requireTbxId \/ Len(answers) >= 1
       /\ ~requireTbxId => tbxid = ""
       /\ form = [pc |-> "awaitModalSubmit", requireTbxId |-> requireTbxId,
                  components |-> Components(requireTbxId, tbxid, answers),
                  formattedResponses |-> <<>>, purchase |-> "unassigned",
                  fields |-> <<>>]
  /\ env = [TRANSCRIPT_CHANNEL_ID |-> FALSE, STAFF_ROLE_IDS |-> FALSE]
  /\ Tickets = <<>>
  /\ TicketMessages = <<>>
  /\ ActiveTickets = [ch \in Channels |-> 0]
  /\ channels = {}
  /\ created = 0
  /\ reload = [pc |-> "done", list |-> <<>>, idx |-> 1]
  /\ open = [p \in Openers |-> IdleOpener]
  /\ close = [p \in Closers |-> IdleCloser]
  /\ inflight = <<>>
  /\ posted = 0
  /\ timers = {}
  /\ deleted = {}
  /\ categoryRows = DOMAIN TicketCategories
  /\ del = IdleDelete
  /\ TicketMembers = <<>>
  /\ render = IdleRender
  /\ modals = <<>>
  /\ member = IdleMember
  /\ permissionOverwrites = {}

FormNext ==
  \/ form_submit
  \/ form_verifyPurchase
  \/ form_fields

FormSpec == FormInit /\ [][FormNext]_vars

\* ------------------------------------------------- transcript renderer
\* utils/transcript_generator.ts.  A text is a sequence of characters; a run
\* of letters that no rule of the renderer looks into (an entity name, a tag
\* name, a fixed attribute) is written as one element.
MaxLog == 3
MaxLen == 3
MaxPasses == 2

\* what a stored message's content can be: absent, plain text, one embedded
\* block (<EMBED:json>), or plain text followed by an embedded block, the
\* way handleNewMessage builds it
Contents == {"null", "text", "embed", "text+embed"}

\* msg.content?.includes('<EMBED:')
includesEmbed(content) == content \in {"embed", "text+embed"}

\* ticket.messages.filter((msg, index, arr) => ...), from index i on
RECURSIVE FilterFrom(_, _)
FilterFrom(log, i) ==
  IF i > Len(log) THEN <<>>
  ELSE (IF \/ i = 1 /\ includesEmbed(log[i].content)
           \/ i = Len(log) /\ includesEmbed(log[i].content)
        THEN <<>> ELSE <<log[i]>>) \o FilterFrom(log, i + 1)

TranscriptMessages(log) == FilterFrom(log, 1)

\* the backquote character
Backquote == "backquote"

\* the characters a text is drawn from
Alphabet ==
  {"a", " ", "&", "<", ">", "\"", "'", "*", "_", "~", Backquote, "\n"}

Digits == {"0", "1", "2", "3", "4", "5", "6", "7", "8", "9"}

Texts == UNION {[1..n -> Alphabet] : n \in 0..MaxLen}

EscapeChar(c) ==
  CASE c = "&"  -> <<"&", "amp", ";">>
    [] c = "<"  -> <<"&", "lt", ";">>
    [] c = ">"  -> <<"&", "gt", ";">>
    [] c = "\"" -> <<"&", "quot", ";">>
    [] c = "'"  -> <<"&", "#039", ";">>
    [] OTHER    -> <<c>>

RECURSIVE escapeHtml(_)
escapeHtml(text) ==
  IF text = <<>> THEN <<>>
  ELSE EscapeChar(Head(text)) \o escapeHtml(Tail(text))

StartsWith(s, i, pat) ==
  /\ i + Len(pat) - 1 <= Len(s)
  /\ SubSeq(s, i, i + Len(pat) - 1) = pat

\* where the lazy (.*?) followed by pat ends: the first position from `from`
\* on at which pat stands, with no line break in between unless the
\* expression has the s flag; 0 when there is none
Closing(s, from, pat, dotAll) ==
  LET J == {j \in from..Len(s) :
              /\ StartsWith(s, j, pat)
              /\ dotAll \/ \A k \in from..(j - 1) : s[k] # "\n"}
  IN  IF J = {} THEN 0 ELSE CHOOSE j \in J : \A k \in J : j <= k

\* s.replace(/D(.*?)D/g, 'O$1C') from position i on
RECURSIVE ReplaceDelimited(_, _, _, _, _, _)
ReplaceDelimited(s, i, D, O, C, dotAll) ==
  IF i > Len(s) THEN <<>>
  ELSE LET j == IF StartsWith(s, i, D)
                THEN Closing(s, i + Len(D), D, dotAll) ELSE 0
       IN  IF j # 0
           THEN O \o SubSeq(s, i + Len(D), j - 1) \o C
                  \o ReplaceDelimited(s, j + Len(D), D, O, C, dotAll)
           ELSE <<s[i]>> \o ReplaceDelimited(s, i + 1, D, O, C, dotAll)

Tag(name) == <<"<", name, ">">>

QuoteMark == <<"&", "gt", ";", " ">>

QuoteOpen == <<"<", "div class=", "\"", "quote", "\"", ">">>

\* the last position of the line that position i is on
LineEnd(s, i) ==
  LET B == {k \in i..Len(s) : s[k] = "\n"}
  IN  IF B = {} THEN Len(s) ELSE (CHOOSE k \in B : \A l \in B : k <= l) - 1

\* s.replace(/^&gt; (.+)$/gm, '<div class="quote">$1</div>') from position i on
RECURSIVE ReplaceQuote(_, _)
ReplaceQuote(s, i) ==
  IF i > Len(s) THEN <<>>
  ELSE IF /\ i = 1 \/ s[i - 1] = "\n"
          /\ StartsWith(s, i, QuoteMark)
          /\ LineEnd(s, i) >= i + Len(QuoteMark)
       THEN QuoteOpen \o SubSeq(s, i + Len(QuoteMark), LineEnd(s, i))
              \o Tag("/div") \o ReplaceQuote(s, LineEnd(s, i) + 1)
       ELSE <<s[i]>> \o ReplaceQuote(s, i + 1)

\* the number of digits standing at position i
RECURSIVE DigitRun(_, _)
DigitRun(s, i) ==
  IF i <= Len(s) /\ s[i] \in Digits THEN 1 + DigitRun(s, i + 1) ELSE 0

MentionSpan(sigil, name) ==
  <<"<", "span class=", "\"", "mention", "\"", ">", sigil, name>> \o Tag("/span")

\* s.replace(/&lt;S(\d+)&gt;/g, '<span class="mention">Sname</span>') from
\* position i on, S being @ or #
RECURSIVE ReplaceMention(_, _, _, _)
ReplaceMention(s, i, sigil, name) ==
  IF i > Len(s) THEN <<>>
  ELSE LET lead == <<"&", "lt", ";", sigil>>
           n == IF StartsWith(s, i, lead) THEN DigitRun(s, i + 4) ELSE 0
       IN  IF n >= 1 /\ StartsWith(s, i + 4 + n, <<"&", "gt", ";">>)
           THEN MentionSpan(sigil, name)
                  \o ReplaceMention(s, i + 4 + n + 3, sigil, name)
           ELSE <<s[i]>> \o ReplaceMention(s, i + 1, sigil, name)

\* s.replace(/\n/g, '<br>')
RECURSIVE ReplaceBreaks(_)
ReplaceBreaks(s) ==
  IF s = <<>> THEN <<>>
  ELSE (IF Head(s) = "\n" THEN Tag("br") ELSE <<Head(s)>>)
         \o ReplaceBreaks(Tail(s))

formatDiscordMarkdown(text) ==
  LET escaped   == escapeHtml(text)
      bold      == ReplaceDelimited(escaped, 1, <<"*", "*">>,
                                    Tag("strong"), Tag("/strong"), FALSE)
      italic    == ReplaceDelimited(bold, 1, <<"*">>,
                                    Tag("em"), Tag("/em"), FALSE)
      underline == ReplaceDelimited(italic, 1, <<"_", "_">>,
                                    Tag("u"), Tag("/u"), FALSE)
      strike    == ReplaceDelimited(underline, 1, <<"~", "~">>,
                                    Tag("s"), Tag("/s"), FALSE)
      block     == ReplaceDelimited(strike, 1, <<Backquote, Backquote, Backquote>>,
                                    Tag("pre") \o Tag("code"),
                                    Tag("/code") \o Tag("/pre"), TRUE)
      code      == ReplaceDelimited(block, 1, <<Backquote>>,
                                    Tag("code"), Tag("/code"), FALSE)
      quote     == ReplaceQuote(code, 1)
      users     == ReplaceMention(quote, 1, "@", "User")
      chans     == ReplaceMention(users, 1, "#", "channel")
  IN  ReplaceBreaks(chans)

\* the strings of a message or of an embedded block: empty (or absent), plain,
\* or a double quote
Strings == {<<>>, <<"a">>, <<"\"">>}

\* one `${...}` of the document templates that holds a string of the message:
\* where it stands, the string, and the text put into the document
Insertion(slot, raw, html) == <<[slot |-> slot, raw |-> raw, html |-> html]>>

When(cond, insertions) == IF cond THEN insertions ELSE <<>>

\* embedData.fields.forEach(...)
RECURSIVE EmbedFieldsHTML(_)
EmbedFieldsHTML(fields) ==
  IF fields = <<>> THEN <<>>
  ELSE Insertion("field.name", Head(fields).name,
                 escapeHtml(Head(fields).name))
         \o Insertion("field.value", Head(fields).value,
                      formatDiscordMarkdown(Head(fields).value))
         \o EmbedFieldsHTML(Tail(fields))

\* the insertions of generateEmbedHTML, in document order
generateEmbedHTML(embedData) ==
  When(embedData.author.icon_url # <<>>,
       Insertion("author.icon_url", embedData.author.icon_url,
                 embedData.author.icon_url))
  \o When(embedData.author.name # <<>>,
          Insertion("author.name", embedData.author.name,
                    escapeHtml(embedData.author.name)))
  \o When(embedData.title # <<>>,
          Insertion("title", embedData.title, escapeHtml(embedData.title)))
  \o When(embedData.description # <<>>,
          Insertion("description", embedData.description,
                    formatDiscordMarkdown(embedData.description)))
  \o EmbedFieldsHTML(embedData.fields)
  \o When(embedData.thumbnail.url # <<>>,
          Insertion("thumbnail.url", embedData.thumbnail.url,
                    embedData.thumbnail.url))
  \o When(embedData.footer.icon_url # <<>>,
          Insertion("footer.icon_url", embedData.footer.icon_url,
                    embedData.footer.icon_url))
  \o When(embedData.footer.text # <<>>,
          Insertion("footer.text", embedData.footer.text,
                    escapeHtml(embedData.footer.text)))

\* embedMatches.forEach(...)
RECURSIVE EmbedsHTML(_)
EmbedsHTML(embeds) ==
  IF embeds = <<>> THEN <<>>
  ELSE generateEmbedHTML(Head(embeds)) \o EmbedsHTML(Tail(embeds))

\* the insertions of one message of generateHTML, in document order
MessageHTML(msg) ==
  When(msg.avatar # <<>>, Insertion("avatar", msg.avatar, msg.avatar))
  \o Insertion("alt", msg.displayName, escapeHtml(msg.displayName))
  \o Insertion("username", msg.displayName, escapeHtml(msg.displayName))
  \o When(msg.textContent # <<>>,
          Insertion("textContent", msg.textContent,
                    formatDiscordMarkdown(msg.textContent)))
  \o EmbedsHTML(msg.embeds)

Embeds ==
  [author : [name : Strings, icon_url : Strings],
   title : Strings, description : Strings,
   fields : {<<>>} \cup {<<f>> : f \in [name : Strings, value : Strings]},
   thumbnail : [url : Strings],
   footer : [icon_url : Strings, text : Strings]]

Logs ==
  UNION {{[i \in 1..n |-> [id |-> i, content |-> c[i]]] :
            c \in [1..n -> Contents]} : n \in 0..MaxLog}

renderFrame ==
  UNCHANGED <<env, Tickets, TicketMessages, ActiveTickets, channels, created,
              reload, open, close, inflight, posted, timers, deleted,
              categoryRows, del, TicketMembers, form, modals, member, permissionOverwrites>>

\* generateTicketTranscript: the stored messages in ascending sentAt order,
\* filtered
generateTicketTranscript ==
  /\ render.pc = "generateTicketTranscript"
  /\ render' = [render EXCEPT !.pc = "transcript",
                              !.messages = TranscriptMessages(render.log)]
  /\ renderFrame

\* formatDiscordMarkdown applied to a text, and then to what it returned
formatDiscordMarkdown_apply ==
  /\ render.pc = "formatDiscordMarkdown"
  /\ render.passes < MaxPasses
  /\ render' = [render EXCEPT
                  !.passes = @ + 1,
                  !.formatted = formatDiscordMarkdown(
                                  IF render.passes = 0 THEN render.source
                                  ELSE render.formatted)]
  /\ renderFrame

\* generateHTML over one message: a message with its own strings (the avatar
\* reference is absent or an address built by the platform library) and no
\* embedded block, or a message with one embedded block
generateHTML ==
  /\ render.pc = "generateHTML"
  /\ render' = [render EXCEPT !.pc = "html", !.html = MessageHTML(render.msg)]
  /\ renderFrame

RenderInit ==
  /\ \/ \E log \in Logs :
          render = [pc |-> "generateTicketTranscript", log |-> log,
                    messages |-> <<>>]
     \/ \E text \in Texts :
          render = [pc |-> "formatDiscordMarkdown", source |-> text,
                    formatted |-> <<>>, passes |-> 0]
     \/ \E displayName \in Strings \ {<<>>}, avatar \in {<<>>, <<"a">>},
           text \in Strings :
          render = [pc |-> "generateHTML", html |-> <<>>,
                    msg |-> [displayName |-> displayName, avatar |-> avatar,
                             textContent |-> text, embeds |-> <<>>]]
     \/ \E embedData \in Embeds :
          render = [pc |-> "generateHTML", html |-> <<>>,
                    msg |-> [displayName |-> <<"a">>, avatar |-> <<>>,
                             textContent |-> <<>>,
                             embeds |-> <<embedData>>]]
  /\ env = [TRANSCRIPT_CHANNEL_ID |-> FALSE, STAFF_ROLE_IDS |-> FALSE]
  /\ Tickets = <<>>
  /\ TicketMessages = <<>>
  /\ ActiveTickets = [ch \in Channels |-> 0]
  /\ channels = {}
  /\ created = 0
  /\ reload = [pc |-> "done", list |-> <<>>, idx |-> 1]
  /\ open = [p \in Openers |-> IdleOpener]
  /\ close = [p \in Closers |-> IdleCloser]
  /\ inflight = <<>>
  /\ posted = 0
  /\ timers = {}
  /\ deleted = {}
  /\ categoryRows = DOMAIN TicketCategories
  /\ del = IdleDelete
  /\ TicketMembers = <<>>
  /\ form = IdleForm
  /\ modals = <<>>
  /\ member = IdleMember
  /\ permissionOverwrites = {}

RenderNext ==
  \/ generateTicketTranscript
  \/ formatDiscordMarkdown_apply
  \/ generateHTML

RenderSpec == RenderInit /\ [][RenderNext]_vars

\* ---------------------------------------------------------- the form waits
\* awaitModalSubmit({ filter, time: 60_000 }) of the intake and of the close
\* request: a collector on the client that ends with the first ModalSubmit
\* interaction its filter accepts, or with nothing when its time is up.
MaxSubmits == 1

\* `collector-openticket-${categoryData.id}-${user.id}`
OpenticketId(cat, u) == [collector |-> "openticket", key |-> cat, user |-> u]

\* `collector-closeticket-${channelId}`
CloseticketId(ch) == [collector |-> "closeticket", key |-> ch, user |-> 0]

\* modalInteraction.customId === modalInteractionId
\*   && modalInteraction.user.id === interaction.user.id
filterCustomIdOnly(modalInteractionId, user, modalInteraction) ==
  modalInteraction.customId = modalInteractionId
filter(modalInteractionId, user, modalInteraction) ==
  /\ modalInteraction.customId = modalInteractionId
  /\ modalInteraction.user = user

\* the prompt identity each suspended workflow waits for
OpenerCustomId(p) == OpenticketId(open[p].cat, open[p].user)
CloserCustomId(p) == CloseticketId(close[p].ch)

\* the collectors that take a submission
OpenersCollecting(m) ==
  {p \in Openers : /\ open[p].pc = "awaitModalSubmit"
                   /\ filter(OpenerCustomId(p), open[p].user, m)}
ClosersCollecting(m) ==
  {p \in Closers : /\ close[p].pc = "awaitModalSubmit"
                   /\ filter(CloserCustomId(p), close[p].user, m)}

\* the form with this identity is open at user u
Shown(customId, u) ==
  \/ \E p \in Openers : /\ open[p].pc = "awaitModalSubmit"
                        /\ OpenerCustomId(p) = customId
                        /\ open[p].user = u
  \/ \E p \in Closers : /\ close[p].pc = "awaitModalSubmit"
                        /\ CloserCustomId(p) = customId
                        /\ close[p].user = u

\* user u submits a form: the interaction is handed to every collector, and
\* each wait whose filter accepts it returns it
ModalSubmit(customId, u) ==
  /\ Len(modals) < MaxSubmits
  /\ Shown(customId, u)
  /\ LET m == [customId |-> customId, user |-> u, acknowledged |-> FALSE]
         k == Len(modals) + 1
     IN /\ modals' = Append(modals, m)
        /\ open' = [p \in Openers |->
                      IF p \in OpenersCollecting(m)
                        THEN [open[p] EXCEPT !.pc = "deferReply",
                                             !.modalInteraction = k]
                        ELSE open[p]]
        /\ close' = [p \in Closers |->
                       IF p \in ClosersCollecting(m)
                         THEN [close[p] EXCEPT !.pc = "deferReply",
                                               !.modalInteraction = k]
                         ELSE close[p]]
  /\ UNCHANGED <<env, storeVars, ActiveTickets, platformVars, reload, inflight,
                 posted, timers, deleted, categoryRows, del, TicketMembers,
                 form, render, member, permissionOverwrites>>

modalFrame ==
  UNCHANGED <<env, storeVars, ActiveTickets, platformVars, reload, inflight,
              posted, timers, deleted, categoryRows, del, TicketMembers, form,
              render, member, permissionOverwrites>>

\* the 60 s of the intake form are up: awaitModalSubmit rejects, the catch
\* block returns
createNewTicket_timeout(p) ==
  /\ open[p].pc = "awaitModalSubmit"
  /\ open' = [open EXCEPT ![p] = EndedOpener(open[p], "IntakeCancelled")]
  /\ UNCHANGED <<close, modals, member, permissionOverwrites>>
  /\ modalFrame

\* the 60 s of the closure form are up
Static_closeTicket_timeout(p) ==
  /\ close[p].pc = "awaitModalSubmit"
  /\ close' = [close EXCEPT ![p] = EndedCloser(close[p], "cancelled")]
  /\ UNCHANGED <<open, modals, member, permissionOverwrites>>
  /\ modalFrame

\* modalInteraction.deferReply: the platform takes one acknowledgement of an
\* interaction and rejects every later one
Acknowledged(k) == modals[k].acknowledged

\* modalInteraction.deferReply of the intake returns or rejects; then the
\* purchase is verified and the category channel looked up
createNewTicket_deferReply(p) ==
  /\ open[p].pc = "deferReply"
  /\ \/ /\ ~Acknowledged(open[p].modalInteraction)
        /\ modals' = [modals EXCEPT ![open[p].modalInteraction].acknowledged = TRUE]
        /\ \E tbxid \in BOOLEAN, tbx \in BOOLEAN, v \in VerifyOutcomes,
              f \in FetchOutcomes :
             /\ tbxid => TicketCategories[open[p].cat].requireTbxId
             /\ tbx => ~TicketCategories[open[p].cat].requireTbxId
             /\ open' = [open EXCEPT ![p] = Deferred(open[p], tbxid, tbx, v, f)]
     \/ /\ open' = [open EXCEPT ![p] = EndedOpener(open[p], "aborted")]
        /\ UNCHANGED modals
  /\ UNCHANGED close
  /\ modalFrame

\* modalInteraction.deferReply of the close request returns or rejects; then
\* the instance closeTicket runs up to its first await
Static_closeTicket_deferReply(p) ==
  /\ close[p].pc = "deferReply"
  /\ close[p].modalInteraction # 0
  /\ \/ /\ ~Acknowledged(close[p].modalInteraction)
        /\ modals' = [modals EXCEPT ![close[p].modalInteraction].acknowledged = TRUE]
        /\ close' = [close EXCEPT ![p].pc = "findUnique"]
     \/ /\ close' = [close EXCEPT ![p] = EndedCloser(close[p], "aborted")]
        /\ UNCHANGED modals
  /\ UNCHANGED open
  /\ modalFrame

\* the categories whose intake shows a form
FormCategoryIds == {id \in DOMAIN TicketCategories : ~FastPath(id)}

\* the bot after startup, with one open ticket registered
ModalInit ==
  \E tc \in BOOLEAN, staff \in BOOLEAN :
    /\ env = [TRANSCRIPT_CHANNEL_ID |-> tc, STAFF_ROLE_IDS |-> staff]
    /\ Tickets = <<[category |-> 1, channelId |-> 1, userId |-> Requester,
                    closedAt |-> FALSE, staffThreadId |-> FALSE]>>
    /\ TicketMessages = <<>>
    /\ ActiveTickets = [ch \in Channels |-> IF ch = 1 THEN 1 ELSE 0]
    /\ channels = {1}
    /\ created = 1
    /\ reload = [pc |-> "done", list |-> <<>>, idx |-> 1]
    /\ open = [p \in Openers |-> IdleOpener]
    /\ close = [p \in Closers |-> IdleCloser]
    /\ inflight = <<>>
    /\ posted = 0
    /\ timers = {}
    /\ deleted = {}
    /\ RestInit

CustomIds ==
  {OpenticketId(cat, u) : cat \in FormCategoryIds, u \in Users}
    \cup {CloseticketId(ch) : ch \in Channels}

ModalNext ==
  \/ \E customId \in CustomIds, u \in Users : ModalSubmit(customId, u)
  \/ \E p \in Openers :
       \/ \E id \in FormCategoryIds : createNewTicket(p, Requester, id)
       \/ createNewTicket_timeout(p)
       \/ createNewTicket_deferReply(p)
       \/ createNewTicket_channelCreate(p)
       \/ createNewTicket_ticketCreate(p)
       \/ createNewTicket_send(p)
       \/ createNewTicket_thread(p)
  \/ \E p \in Closers :
       \/ \E ch \in Channels, u \in Users : Static_closeTicket(p, ch, u)
       \/ Static_closeTicket_timeout(p)
       \/ Static_closeTicket_deferReply(p)
       \/ closeTicket_findUnique(p)
       \/ closeTicket_update(p)
       \/ closeTicket_create(p)
       \/ closeTicket_transcript(p)
       \/ closeTicket_fanout(p)
       \/ Static_closeTicket_notify(p)
       \/ DeletionTimer(p)

ModalSpec == ModalInit /\ [][ModalNext]_vars

\* the timer of a collector runs out unless the collector has ended
ModalFairSpec ==
  /\ ModalSpec
  /\ \A p \in Openers : WF_vars(createNewTicket_timeout(p))
  /\ \A p \in Closers : WF_vars(Static_closeTicket_timeout(p))

\* ------------------------------------------------- the recovery pass alone
\* reloadTickets over a store that holds up to RecoveryTickets open tickets,
\* with no request arriving before the pass has ended.
RecoveryInit ==
  \E n \in 0..RecoveryTickets :
  \E alive \in SUBSET (1..n) :
  \E threads \in SUBSET (1..n) :
  \E tc \in BOOLEAN, staff \in BOOLEAN :
    /\ env = [TRANSCRIPT_CHANNEL_ID |-> tc, STAFF_ROLE_IDS |-> staff]
    /\ Tickets = [t \in 1..n |->
                    [category |-> 1, channelId |-> t, userId |-> 1,
                     closedAt |-> FALSE, staffThreadId |-> t \in threads]]
    /\ TicketMessages = <<>>
    /\ ActiveTickets = [ch \in Channels |-> 0]
    /\ channels = alive
    /\ created = n
    /\ reload = [pc |-> "findMany", list |-> <<>>, idx |-> 1]
    /\ open = [p \in Openers |-> IdleOpener]
    /\ close = [p \in Closers |-> IdleCloser]
    /\ inflight = <<>>
    /\ posted = 0
    /\ timers = {}
    /\ deleted = {}
    /\ RestInit

RecoveryNext ==
  \/ reloadTickets_findMany
  \/ reloadTickets_fetch
  \/ reloadTickets_update
  \/ reloadTickets_create

RecoverySpec == RecoveryInit /\ [][RecoveryNext]_vars

\* ================================================================ claims
ClosingPcs == {"findUnique", "update", "create", "transcript", "fanout"}

\* the channel's ticket rows (one per channel id)
TicketsOf(ch) == {t \in TicketIds : Tickets[t].channelId = ch}

\* a close request on ch has run to a successful end of the closure sequence
ClosedSuccessfully(ch) ==
  \E q \in Closers : close[q].ch = ch /\ close[q].success = "true"

\* C1: once a close request on a channel has completed successfully, every
\* close request that arrives later on that channel is answered "This channel
\* is not an active ticket", ends there, and writes nothing: no store row, no
\* registry entry, no timer.
C1_SecondCloseRejected ==
  [][\A p \in Closers :
       /\ (close[p].pc = "idle" /\ close'[p].pc # "idle"
             /\ ClosedSuccessfully(close'[p].ch))
          => /\ close'[p].pc = "ChannelNotTicket"
             /\ UNCHANGED <<storeVars, ActiveTickets, timers, deleted, inflight>>
       /\ close[p].pc = "ChannelNotTicket" => close'[p] = close[p]]_vars

C1_Witness ==
  /\ close[1].success = "true"
  /\ close[2].pc = "ChannelNotTicket"
  /\ close[2].ch = close[1].ch

\* C2: the closure sequence is entered only from the open state: a confirmed
\* close request starts it only on a ticket whose closedAt is null and that no
\* other close request is closing.
C2_ClosureEnteredFromOpenOnly ==
  [][\A p \in Closers :
       (close[p].pc = "awaitModalSubmit" /\ close'[p].pc = "findUnique")
       => /\ IsOpen(close[p].ticket)
          /\ \A q \in Closers \ {p} :
               close[q].ticket = close[p].ticket => close[q].pc \notin ClosingPcs]_vars

\* C3: every ticket held in ActiveTickets is a persisted ticket whose closedAt
\* is null.
C3_RegistrySubsetOfOpenTickets ==
  \A ch \in Channels :
    getTicket(ch) # 0 => getTicket(ch) \in TicketIds /\ IsOpen(getTicket(ch))

\* C4: for every channel id at most one persisted ticket with that channel id
\* has closedAt = null.
C4_OneOpenTicketPerChannel ==
  \A ch \in Channels : Cardinality({t \in TicketsOf(ch) : IsOpen(t)}) <= 1

C4_Witness ==
  /\ Len(Tickets) = 2
  /\ reload.pc = "done"
  /\ Tickets[1].closedAt
  /\ IsOpen(2)
  /\ getTicket(Tickets[2].channelId) = 2

\* C5: a registry entry is keyed by the channel id of its ticket, a
\* registration never replaces the entry of a different ticket, and two
\* intakes that have provisioned a channel hold two distinct channel ids.
C5_RegistryKeys ==
  /\ [](\A ch \in Channels :
          getTicket(ch) # 0 => Tickets[getTicket(ch)].channelId = ch)
  /\ [](\A p, q \in Openers :
          p # q /\ open[p].ch # 0 /\ open[q].ch # 0 => open[p].ch # open[q].ch)
  /\ [][\A ch \in Channels :
          getTicket(ch) # 0 /\ ActiveTickets'[ch] # 0
            => ActiveTickets'[ch] = ActiveTickets[ch]]_vars

C5_Witness ==
  /\ open[1].pc = "send" /\ open[2].pc = "send"
  /\ getTicket(open[1].ch) = open[1].ticket
  /\ getTicket(open[2].ch) = open[2].ticket
  /\ getTicket(1) = 1

\* C6: the closure sequence returns true iff it persisted closedAt and appended
\* the closure message; a failed transcript, archive post, staff transcript or
\* requester DM leaves the result true and the ticket persisted as closed.
C6_ResultFromDurableSteps ==
  \A p \in Closers :
    close[p].pc = "deleteReply" =>
      /\ close[p].success = "true" <=> close[p].wrote = {"closedAt", "message"}
      /\ close[p].success = "true" =>
           /\ Tickets[close[p].ticket].closedAt
           /\ \E i \in DOMAIN TicketMessages :
                TicketMessages[i] = [ticket |-> close[p].ticket,
                                     authorId |-> close[p].user, content |-> "closed"]

C6_Witness ==
  \E p \in Closers :
    /\ close[p].pc = "deleteReply"
    /\ close[p].success = "true"
    /\ close[p].archive = "failed"
    /\ close[p].dm = "failed"

\* C7: in a confirmed closure the ticket has left the registry before the
\* fan-out (archive post, staff transcript, requester DM) begins.
C7_UnregisteredBeforeFanout ==
  \A p \in Closers : close[p].pc = "fanout" => getTicket(close[p].ch) = 0

\* C8: the fan-out destinations are fault-isolated: with a transcript rendered,
\* a failed archive post prevents neither the staff-only transcript (when the
\* ticket has a staff thread) nor the requester DM from being attempted.
C8_FanoutIndependent ==
  \A p \in Closers :
    (close[p].pc = "deleteReply" /\ close[p].archive = "failed") =>
      /\ close[p].dm # "none"
      /\ close[p].staffThread => close[p].staff # "none"

\* C9: when the closer is the ticket's requester, the closure sends no direct
\* message to the requester.
C9_NoDmToClosingRequester ==
  \A p \in Closers :
    (close[p].pc = "deleteReply" /\ Tickets[close[p].ticket].userId = close[p].user)
      => close[p].dm # "sent"

\* C10: the deletion timer is set exactly when the closure sequence returns
\* true, in the turn that returns it; its callback runs only after that
\* return, only for a ticket persisted as closed, and changes neither the
\* store nor any close request's result, whether the deletion succeeds or not.
C10_DeletionTimer ==
  /\ [][\A p \in Closers :
          (p \in timers' /\ p \notin timers)
            <=> (close[p].success # "true" /\ close'[p].success = "true")]_vars
  /\ [][\A p \in Closers :
          (p \in deleted' /\ p \notin deleted)
            => /\ p \in timers /\ p \notin timers'
               /\ close[p].success = "true"
               /\ \A t \in TicketsOf(close[p].ch) : Tickets[t].closedAt
               /\ UNCHANGED <<storeVars, close, ActiveTickets>>]_vars
  /\ [](timers \cap deleted = {})

C10_Witness ==
  \E p \in Closers :
    /\ p \in deleted
    /\ close[p].pc = "deleteReply"
    /\ close[p].ch \in channels

\* the effects a request can have outside its own handler
Effects == <<storeVars, ActiveTickets, platformVars, inflight, timers, deleted>>

\* C11: a closure-reason prompt that times out or is cancelled ends the close
\* request with no side effect: in that step the store (closedAt, message
\* log), the registry, the channels and the timers are unchanged, and the
\* request does nothing afterwards.
C11_CancelledClosureNoEffect ==
  /\ [][\A p \in Closers :
          /\ (close[p].pc = "awaitModalSubmit" /\ close'[p].pc = "cancelled")
               => UNCHANGED Effects
          /\ close[p].pc = "cancelled" => close'[p] = close[p]]_vars
  /\ [](\A p \in Closers :
          close[p].pc = "cancelled"
            => close[p].success = "none" /\ p \notin timers \cup deleted)

C11_Witness ==
  \E p \in Closers :
    /\ close[p].pc = "cancelled"
    /\ getTicket(close[p].ch) # 0
    /\ IsOpen(getTicket(close[p].ch))
    /\ TicketMessages = <<>>
    /\ timers = {}

\* C12: a close request on a channel with no registry entry is answered
\* ChannelNotTicket in its first step and changes no state; the prompt is
\* shown only for a channel that has a registry entry.
C12_ChannelNotTicketNoEffect ==
  [][\A p \in Closers :
       (close[p].pc = "idle" /\ close'[p].pc # "idle")
         => IF ActiveTickets[close'[p].ch] = 0
              THEN close'[p].pc = "ChannelNotTicket" /\ UNCHANGED Effects
              ELSE close'[p].pc = "awaitModalSubmit"]_vars

C12_Witness ==
  \E p \in Closers :
    /\ close[p].pc = "ChannelNotTicket"
    /\ ~ClosedSuccessfully(close[p].ch)

\* the synthetic closure messages of ticket t
BotClosureMessages(t) ==
  {i \in DOMAIN TicketMessages :
     TicketMessages[i].ticket = t /\ TicketMessages[i].authorId = Bot}

RecoveryEnded == reload.pc \in {"done", "aborted"}

\* C13: when the recovery pass has ended, every persisted open ticket whose
\* channel is missing is force-closed (closedAt set, exactly one closure
\* message authored by the bot) and unregistered, and every other one is
\* registered under its channel id with closedAt null and no closure message.
C13_RecoveryOutcome ==
  RecoveryEnded =>
    \A t \in TicketIds :
      IF Tickets[t].channelId \in channels
        THEN /\ IsOpen(t)
             /\ ActiveTickets[Tickets[t].channelId] = t
             /\ BotClosureMessages(t) = {}
        ELSE /\ Tickets[t].closedAt
             /\ Cardinality(BotClosureMessages(t)) = 1
             /\ ActiveTickets[Tickets[t].channelId] = 0

\* C14: a failure while handling one ticket does not abort the recovery pass:
\* when the pass has ended, every ticket of the list other than the one whose
\* handling failed has been registered or force-closed.
C14_RecoveryBestEffort ==
  RecoveryEnded =>
    \A i \in 1..Len(reload.list) :
      \/ reload.pc = "aborted" /\ i = reload.idx
      \/ ActiveTickets[Tickets[reload.list[i]].channelId] = reload.list[i]
      \/ Tickets[reload.list[i]].closedAt

\* C15: an intake form wait that ends without a submission ends the intake as
\* IntakeCancelled with no side effect: no channel, no Ticket row, no registry
\* entry; the intake does nothing afterwards.
C15_IntakeCancelledNoEffect ==
  [][\A p \in Openers :
       /\ (open[p].pc # "IntakeCancelled" /\ open'[p].pc = "IntakeCancelled")
            => open[p].pc = "awaitModalSubmit" /\ UNCHANGED Effects
       /\ open[p].pc = "IntakeCancelled" => open'[p] = open[p]]_vars

C15_Witness ==
  /\ open[1].pc = "IntakeCancelled"
  /\ open[2].pc = "idle"
  /\ created = Len(Tickets)
  /\ \A ch \in Channels : getTicket(ch) = 0 \/ getTicket(ch) \in 1..InitTickets

\* the intake has passed verification and the category channel lookup
ProvisioningPcs == {"channelCreate", "editReply", "ticketCreate", "send", "threadCreate"}

\* C16: for a category that requires a transaction id, an intake goes on to
\* provisioning only with a purchase the verification collaborator accepted;
\* otherwise it ends as VerificationFailed, straight from the form, with no
\* channel, no Ticket row and no registry entry.
C16_VerificationPrecedesProvisioning ==
  /\ [](\A p \in Openers :
          (open[p].pc \in ProvisioningPcs /\ TicketCategories[open[p].cat].requireTbxId)
            => open[p].purchase = "verified")
  /\ [][\A p \in Openers :
          /\ (open[p].pc # "VerificationFailed" /\ open'[p].pc = "VerificationFailed")
               => open[p].pc = "awaitModalSubmit" /\ UNCHANGED Effects
          /\ open[p].pc = "VerificationFailed" => open'[p] = open[p]]_vars

C16_Witness ==
  /\ open[1].pc = "VerificationFailed"
  /\ open[2].pc \in ProvisioningPcs
  /\ open[2].purchase = "verified"

\* the category requires a transaction id or defines at least one field
TriggersPrompt(cat) ==
  TicketCategories[cat].requireTbxId \/ TicketCategories[cat].fields >= 1

\* C17: the form is shown iff the category requires a transaction id or
\* defines at least one field: such an intake reaches provisioning only from
\* the form wait, and an intake of any other category goes from the request
\* straight to provisioning, with no retained answer.
C17_PromptIffTokenOrFields ==
  /\ [](\A p \in Openers :
          open[p].pc = "awaitModalSubmit" => TriggersPrompt(open[p].cat))
  /\ [][\A p \in Openers :
          (open[p].pc \notin ProvisioningPcs /\ open'[p].pc \in ProvisioningPcs)
            => IF TriggersPrompt(open'[p].cat)
                 THEN open[p].pc = "awaitModalSubmit"
                 ELSE open[p].pc = "idle" /\ ~open'[p].tbx]_vars

C17_Witness ==
  /\ open[1].pc = "send"
  /\ ~TriggersPrompt(open[1].cat)
  /\ open[2].pc = "awaitModalSubmit"

\* C18: an intake goes past its first step only with a category_id that
\* resolves to a persisted category; otherwise it ends as CategoryNotFound in
\* that step, with no form, no channel, no Ticket row and no registry entry.
C18_CategoryNotFoundNoEffect ==
  /\ [](\A p \in Openers :
          open[p].pc \in ProvisioningPcs \cup {"awaitModalSubmit"}
            => open[p].id \in DOMAIN TicketCategories /\ open[p].cat = open[p].id)
  /\ [][\A p \in Openers :
          /\ (open[p].pc # "CategoryNotFound" /\ open'[p].pc = "CategoryNotFound")
               => open[p].pc = "idle" /\ UNCHANGED Effects
          /\ open[p].pc = "CategoryNotFound" => open'[p] = open[p]]_vars

C18_Witness ==
  /\ open[1].pc = "CategoryNotFound"
  /\ open[2].pc = "CategoryNotFound"
  /\ created = Len(Tickets)

\* C19: on both paths a channel is created only by an intake whose category
\* channel was found; an intake whose category channel is not found ends as
\* ProvisioningFailed with no channel, no Ticket row and no registry entry.
C19_CreationAfterTargetResolved ==
  /\ [](\A p \in Openers :
          open[p].pc = "channelCreate" => open[p].categoryChannel = "found")
  /\ [][created' # created
          => \E p \in Openers :
               /\ open[p].pc = "channelCreate"
               /\ open[p].categoryChannel = "found"
               /\ open'[p].pc # "channelCreate"]_vars
  /\ [][\A p \in Openers :
          /\ (open[p].pc # "ProvisioningFailed" /\ open'[p].pc = "ProvisioningFailed")
               => UNCHANGED Effects
          /\ open[p].pc = "ProvisioningFailed" => open'[p] = open[p]]_vars

C19_Witness ==
  /\ open[1].pc = "ProvisioningFailed"
  /\ open[2].pc = "ProvisioningFailed"
  /\ created = Len(Tickets)

\* C20: a Ticket row is appended in exactly the steps that register the new
\* ticket; an intake that holds no row has no registry entry, and the ticket
\* of an intake that holds one is registered for as long as it is open.
C20_RowAndEntryTogether ==
  /\ [][(Len(Tickets') > Len(Tickets))
          <=> \E ch \in Channels :
                /\ ActiveTickets'[ch] = Len(Tickets) + 1
                /\ ActiveTickets[ch] # Len(Tickets) + 1]_vars
  /\ [](\A ch \in Channels : getTicket(ch) # 0 => getTicket(ch) \in TicketIds)
  /\ [](\A p \in Openers :
          open[p].pc \in {"editReply", "ticketCreate"}
            => open[p].ticket = 0 /\ getTicket(open[p].ch) = 0)
  /\ [](\A p \in Openers :
          open[p].pc \in {"send", "threadCreate"}
            => /\ open[p].ticket \in TicketIds
               /\ Tickets[open[p].ticket].channelId = open[p].ch
               /\ IsOpen(open[p].ticket) => getTicket(open[p].ch) = open[p].ticket)

C20_Witness ==
  /\ open[1].pc = "aborted"
  /\ created = Len(Tickets) + 1
  /\ open[2].pc = "threadCreate"
  /\ getTicket(open[2].ch) = open[2].ticket

\* C21: with staff roles configured, the staff thread block ends the intake as
\* completed whether or not its steps succeed, and leaves the ticket row
\* persisted with the closedAt it had and the registry as it was.
C21_StaffThreadNonFatal ==
  /\ [](\A p \in Openers :
          open[p].pc = "threadCreate"
            => env.STAFF_ROLE_IDS /\ open[p].ticket \in TicketIds)
  /\ [][\A p \in Openers :
          (open[p].pc = "threadCreate" /\ open'[p] # open[p])
            => /\ open'[p].pc = "done"
               /\ UNCHANGED <<ActiveTickets, TicketMessages, platformVars>>
               /\ Len(Tickets') = Len(Tickets)
               /\ \A t \in TicketIds : Tickets'[t].closedAt = Tickets[t].closedAt]_vars

C21_Witness ==
  /\ env.STAFF_ROLE_IDS
  /\ reload.pc = "done" /\ reload.list = <<>>
  /\ open[1].pc = "done"
  /\ Len(Tickets) = 1
  /\ ~Tickets[1].staffThreadId
  /\ IsOpen(1)
  /\ getTicket(Tickets[1].channelId) = 1

\* C26: a Ticket row is appended only by an intake at its tickets.create, no
\* row is ever removed, a row's category, channel id and requester never
\* change, closedAt is set only by a closure at its update or by the recovery
\* pass at its update, and a set closedAt is never reset.
C26_TicketRowFrame ==
  [][/\ Len(Tickets') >= Len(Tickets)
     /\ Len(Tickets') > Len(Tickets)
          => /\ Len(Tickets') = Len(Tickets) + 1
             /\ \E p \in Openers : open[p].pc = "ticketCreate" /\ open'[p].pc = "send"
     /\ \A t \in TicketIds :
          /\ Tickets'[t].category = Tickets[t].category
          /\ Tickets'[t].channelId = Tickets[t].channelId
          /\ Tickets'[t].userId = Tickets[t].userId
          /\ Tickets[t].closedAt => Tickets'[t].closedAt
          /\ (~Tickets[t].closedAt /\ Tickets'[t].closedAt)
               => \/ \E p \in Closers : close[p].pc = "update" /\ close[p].ticket = t
                  \/ reload.pc = "update" /\ reload.list[reload.idx] = t]_vars

C26_Witness ==
  /\ Len(Tickets) = 2
  /\ Tickets[1].closedAt /\ Tickets[2].closedAt
  /\ reload.pc = "done" /\ reload.list = <<1>>
  /\ \E p \in Closers : close[p].success = "true" /\ close[p].ch = Tickets[2].channelId

\* C30: a message event whose channel the registry maps to ticket T appends
\* exactly one row, the message, to the log when its store write returns; an
\* event in a channel with no registered ticket writes nothing; the rows
\* already in the log are never updated or removed.
C30_OneRowPerDispatchedMessage ==
  /\ [][\A ch \in Channels, u \in Users :
          updateMessages(ch, u)
            => IF ActiveTickets[ch] = 0
                 THEN UNCHANGED <<inflight, TicketMessages>>
                 ELSE inflight' = Append(inflight, [ticket |-> ActiveTickets[ch],
                                                    authorId |-> u, content |-> "text"])]_vars
  /\ [][\A i \in DOMAIN inflight :
          handleNewMessage_create(i)
            => TicketMessages' = Append(TicketMessages, inflight[i])]_vars
  /\ [][/\ Len(TicketMessages') >= Len(TicketMessages)
        /\ SubSeq(TicketMessages', 1, Len(TicketMessages)) = TicketMessages]_vars

C27_MemberRowsKept ==
  /\ [](\A t \in TicketIds, u \in Users : Cardinality(RowsOf(TicketMembers, t, u)) <= 1)
  /\ [][/\ Len(TicketMembers') >= Len(TicketMembers)
        /\ \A i \in DOMAIN TicketMembers :
             /\ TicketMembers'[i].ticket = TicketMembers[i].ticket
             /\ TicketMembers'[i].userId = TicketMembers[i].userId]_vars
  /\ [][\A t \in TicketIds, u \in Users, by \in Users :
          /\ (removeTicketParticipant(t, u, by) /\ TicketMembers' # TicketMembers)
               => /\ RowsOf(TicketMembers', t, u) = RowsOf(TicketMembers, t, u)
                  /\ \A i \in RowsOf(TicketMembers', t, u) : TicketMembers'[i].removed
          /\ (addTicketParticipant(t, u, by) /\ TicketMembers' # TicketMembers)
               => /\ RowsOf(TicketMembers, t, u) \subseteq RowsOf(TicketMembers', t, u)
                  /\ Cardinality(RowsOf(TicketMembers', t, u)) = 1
                  /\ \A i \in RowsOf(TicketMembers', t, u) : ~TicketMembers'[i].removed]_vars

C27_Witness ==
  /\ Len(TicketMembers) = 2
  /\ TicketMembers[1].addedAt = "update" /\ ~TicketMembers[1].removed
  /\ TicketMembers[2].removed

\* the position of the input with the given id in the prompt
PromptPosition(id) == CHOOSE i \in DOMAIN form.components : form.components[i].id = id

\* C28: after a submission, the retained answers are exactly the prompt's
\* inputs with a non-empty label and a non-empty response, each once, with its
\* label and response, in prompt order; the transaction id input, when the
\* category requires one, is the first input of the prompt.
C28_RetainedAnswers ==
  form.pc \notin {"idle", "awaitModalSubmit"} =>
    LET C == form.components
        R == form.formattedResponses
    IN /\ \A k \in DOMAIN R :
            \E i \in DOMAIN C :
              /\ C[i] = R[k]
              /\ C[i].label # "" /\ C[i].response # ""
       /\ \A i \in DOMAIN C :
            (C[i].label # "" /\ C[i].response # "")
              => Cardinality({k \in DOMAIN R : R[k].id = C[i].id}) = 1
       /\ \A k, l \in DOMAIN R :
            k < l => PromptPosition(R[k].id) < PromptPosition(R[l].id)
       /\ form.requireTbxId => C[1].id = "tbxid"

C28_Witness ==
  /\ form.pc = "send"
  /\ form.requireTbxId
  /\ Len(form.components) = 3
  /\ Len(form.formattedResponses) = 2
  /\ form.components[2].response = ""

\* C29: the introductory message of a form-path ticket is built for every
\* submission that reaches it, with one entry per retained answer in form
\* order: the verification summary for an answer that matches the
\* transaction id format, the label and the answer otherwise; whether or not
\* the category requires a transaction id.
C29_IntroFields ==
  form.pc \in {"send", "TypeError"} =>
    /\ form.pc = "send"
    /\ Len(form.fields) = Len(form.formattedResponses)
    /\ \A k \in DOMAIN form.fields :
         form.fields[k] =
           IF form.formattedResponses[k].response = "tbx"
             THEN [name |-> "Purchase Info", value |-> "summary"]
             ELSE [name |-> form.formattedResponses[k].label,
                   value |-> form.formattedResponses[k].response]

\* a stored message that is an embedded block and nothing else
RichContentOnly(msg) == msg.content = "embed"

\* C22: the transcript of a message log lacks the first message iff that is a
\* rich-content-only marker, lacks the last message iff that is one, and holds
\* every other message once, in the order of the log; a first or last message
\* with plain text, with or without an embedded block, is kept.
C22_TranscriptKeepsText ==
  render.pc = "transcript" =>
    LET log == render.log
        Kept(msg) == ~(msg.id \in {1, Len(log)} /\ RichContentOnly(msg))
    IN  render.messages = SelectSeq(log, Kept)

\* the character an entity stands for
EntityChar(name) ==
  CASE name = "amp"  -> "&"
    [] name = "lt"   -> "<"
    [] name = "gt"   -> ">"
    [] name = "quot" -> "\""
    [] name = "#039" -> "'"

\* the text a reader of the document sees: tags are not shown (a br tag breaks
\* the line) and an entity is shown as the character it stands for
RECURSIVE Visible(_)
Visible(html) ==
  IF html = <<>> THEN <<>>
  ELSE IF Head(html) = "<" /\ \E j \in 2..Len(html) : html[j] = ">"
  THEN LET j == CHOOSE k \in 2..Len(html) :
                  /\ html[k] = ">"
                  /\ \A l \in 2..(k - 1) : html[l] # ">"
       IN  (IF SubSeq(html, 1, j) = Tag("br") THEN <<"\n">> ELSE <<>>)
             \o Visible(SubSeq(html, j + 1, Len(html)))
  ELSE IF /\ Len(html) >= 3
          /\ Head(html) = "&"
          /\ html[2] \in {"amp", "lt", "gt", "quot", "#039"}
          /\ html[3] = ";"
  THEN <<EntityChar(html[2])>> \o Visible(SubSeq(html, 4, Len(html)))
  ELSE <<Head(html)>> \o Visible(Tail(html))

\* C23: formatDiscordMarkdown applied to its own output shows the same text as
\* formatDiscordMarkdown applied once.
C23_MarkdownIdempotent ==
  (render.pc = "formatDiscordMarkdown" /\ render.passes >= 2) =>
    Visible(render.formatted) = Visible(formatDiscordMarkdown(render.source))

\* C24: every string of a message that is put into the document (the text, the
\* display name, the avatar reference, and every string of an embedded block)
\* is HTML-escaped before it is put in.
C24_InsertionsEscaped ==
  render.pc = "html" =>
    \A i \in DOMAIN render.html :
      render.html[i].html \in {escapeHtml(render.html[i].raw),
                               formatDiscordMarkdown(render.html[i].raw)}

\* C31: after a confirmed closure whose transcript was rendered and posted to
\* the configured archive channel, with no call of the staff block failing, a
\* staff transcript was posted iff the ticket has a staff thread and that
\* thread held more than one message; a thread with its seed message alone
\* gives none.
C31_StaffTranscriptIffMoreThanSeed ==
  \A p \in Closers :
    (/\ close[p].pc = "deleteReply"
     /\ close[p].success = "true"
     /\ env.TRANSCRIPT_CHANNEL_ID
     /\ close[p].archive = "sent"
     /\ close[p].staff # "failed") =>
      /\ close[p].staff = "sent" <=>
            (close[p].staffThread /\ close[p].staffMessages > 1)
      /\ (close[p].staffThread /\ close[p].staffMessages = 1) =>
            close[p].staff = "seed only"

\* a closure that posted a staff transcript, of a thread with more than its seed
C31_Witness ==
  \E p \in Closers :
    /\ close[p].pc = "deleteReply"
    /\ close[p].success = "true"
    /\ close[p].staffThread
    /\ close[p].staffMessages > 1
    /\ close[p].staff = "sent"

\* how a suspended intake or close request left its form wait in this step:
\* with the submission just received, which carries its prompt identity and
\* comes from its user, or cancelled with no submission received
WaitResolved ==
  /\ \A p \in Openers :
       (open[p].pc = "awaitModalSubmit" /\ open'[p].pc # "awaitModalSubmit") =>
         \/ /\ open'[p].pc = "deferReply"
            /\ Len(modals') = Len(modals) + 1
            /\ open'[p].modalInteraction = Len(modals')
            /\ modals'[Len(modals')].customId = OpenerCustomId(p)
            /\ modals'[Len(modals')].user = open[p].user
         \/ /\ open'[p].pc = "IntakeCancelled"
            /\ modals' = modals
  /\ \A p \in Closers :
       (close[p].pc = "awaitModalSubmit" /\ close'[p].pc # "awaitModalSubmit") =>
         \/ /\ close'[p].pc = "deferReply"
            /\ Len(modals') = Len(modals) + 1
            /\ close'[p].modalInteraction = Len(modals')
            /\ modals'[Len(modals')].customId = CloserCustomId(p)
            /\ modals'[Len(modals')].user = close[p].user
         \/ /\ close'[p].pc = "cancelled"
            /\ modals' = modals

\* C32: a form wait of an intake or of a close request ends only with a
\* submission that carries its prompt identity and comes from its user, or
\* cancelled when its time is up; a submission with another identity or from
\* another user leaves it waiting; and every form wait ends.
C32_FormWaitsTerminate ==
  /\ [][WaitResolved]_vars
  /\ \A p \in Openers :
       (open[p].pc = "awaitModalSubmit") ~> (open[p].pc # "awaitModalSubmit")
  /\ \A p \in Closers :
       (close[p].pc = "awaitModalSubmit") ~> (close[p].pc # "awaitModalSubmit")

\* a submission has ended one wait and left another, of another user, waiting
C32_Witness ==
  \E p \in Closers, q \in Closers :
    /\ close[p].pc = "deferReply"
    /\ close[q].pc = "awaitModalSubmit"
    /\ close[p].ch = close[q].ch

\* C36: one submission ends at most one form wait of the intake, also when two
\* intakes of the same requester for the same category wait at once, so that
\* at most one intake goes on to create a channel and a Ticket row.
C36_OneWaitPerSubmission ==
  \A k \in DOMAIN modals :
    Cardinality({p \in Openers : open[p].modalInteraction = k}) <= 1

\* C33: a closure sequence that returns false has written nothing: it has
\* not set closedAt and has not appended a closure message.
C33_FailedCloseWritesNothing ==
  \A p \in Closers :
    (close[p].pc = "deleteReply" /\ close[p].success = "false") =>
      close[p].wrote = {}

\* C34: in the message log of a ticket closed by a close request, the closure
\* message is the last entry: no entry of the ticket, and no second closure
\* message, comes after it.
C34_ClosureMessageLast ==
  \A i \in DOMAIN TicketMessages :
    (TicketMessages[i].content = "closed" /\ TicketMessages[i].authorId # Bot) =>
      \A j \in DOMAIN TicketMessages :
        j > i => TicketMessages[j].ticket # TicketMessages[i].ticket

\* the tickets opened since startup: those that reloadTickets did not find
OpenedSinceStartup == {t \in TicketIds : t > Len(reload.list)}

\* C35: the first entry of the message log of every ticket opened by an intake
\* is the bot's introductory message: no message of the requester is logged
\* before it.
C35_IntroductionFirst ==
  \A i \in DOMAIN TicketMessages :
    (/\ TicketMessages[i].ticket \in OpenedSinceStartup
     /\ \A j \in 1..(i - 1) : TicketMessages[j].ticket # TicketMessages[i].ticket) =>
      TicketMessages[i].content = "intro"

\* C37: an intake that has created its channel is not aborted before the
\* Ticket row write: once the channel exists the run ends without a row only
\* when the row write itself fails.
C37_NoAbortBetweenChannelAndRow ==
  [][\A p \in Openers :
       (/\ open[p].pc # "aborted"
        /\ open'[p].pc = "aborted"
        /\ open[p].ch # 0 \/ created' # created) =>
         open[p].pc \in {"ticketCreate", "send", "threadCreate"}]_vars

\* C38: recovery force-closes a persisted open ticket only when its channel no
\* longer exists: a ticket whose channel exists is not given closedAt, whatever
\* made its lookup fail.
C38_ForceCloseOnlyWithoutChannel ==
  [][(reload.pc = "fetch" /\ reload'.pc = "update") =>
       Tickets[reload.list[reload.idx]].channelId \notin channels]_vars

\* C39: an add or remove participant command that returns false has changed
\* neither the TicketMember row nor the channel's access entries; one that
\* returns true has changed both; so that, between commands, a row with
\* removed = 0 stands for a granted view permission and a row with removed = 1
\* for a revoked one.
C39_RowAndAccessTogether ==
  /\ member.pc = "false" => member.wrote = {}
  /\ member.pc = "true" => member.wrote = {"row", "permissionOverwrites"}
  /\ MemberEnded =>
       \A i \in DOMAIN TicketMembers :
         ~TicketMembers[i].removed <=>
           <<Tickets[TicketMembers[i].ticket].channelId, TicketMembers[i].userId>>
             \in permissionOverwrites

\* ------------------------------------------------ closing under fairness
\* Every awaited call of the closing sequence after the closure message
\* eventually returns or fails, and the deletion timer eventually fires: the
\* continuation of each await and the timer callback are run by the event
\* loop once they are enabled.
ClosingFairness ==
  \A p \in Closers :
    /\ WF_vars(closeTicket_transcript(p))
    /\ WF_vars(closeTicket_fanout(p))
    /\ WF_vars(DeletionTimer(p))

ClosingFairSpec == ModalSpec /\ ClosingFairness

\* C40: once a confirmed close has persisted closedAt and the closure message,
\* the ticket is eventually removed from the registry and the deletion of its
\* channel is eventually issued, whichever of the transcript, archive, staff
\* transcript and DM steps fail.
C40_ConfirmedCloseCompletes ==
  \A p \in Closers :
    (close[p].pc = "transcript" /\ close[p].wrote = {"closedAt", "message"})
      ~> (/\ close[p].success = "true"
          /\ ActiveTickets[close[p].ch] = 0
          /\ p \in deleted)

\* a confirmed close has run to its end: the ticket is unregistered and the
\* deletion of its channel issued
C40_Witness ==
  \E p \in Closers :
    /\ close[p].success = "true"
    /\ ActiveTickets[close[p].ch] = 0
    /\ p \in deleted
    /\ close[p].pc \in {"done", "aborted"}

====
